---- MODULE Spec2Model ----
(***************************************************************************)
(* Model of the llm-docs corpus tooling: tools/build_corpus.py (the        *)
(* builder) and tools/validate_docs.py (the validator).                    *)
(*                                                                         *)
(* Text is a sequence of characters (one-character strings; the grave      *)
(* accent is the string "grave"), so that the scanners, the                *)
(* regular expressions, strip(), slugify() and the chunk-ID format are     *)
(* computed character by character as the Python code computes them.       *)
(***************************************************************************)
EXTENDS Integers, Sequences, FiniteSets, TLC

\* ------------------------------------------------------------------------
\* Bounds of the model
\* ------------------------------------------------------------------------

\* longest body, in fragments of FragmentPool, that Init draws
MaxFrags == 3

\* ------------------------------------------------------------------------
\* Characters and strings
\* ------------------------------------------------------------------------

\* Python's None
None == "None"

\* the characters \s matches and str.strip() removes (those TLA+ can write)
SpaceChars == {" ", "\t", "\n", "\r", "\f"}

IsSpace(c) == c \in SpaceChars

\* the line boundaries of str.splitlines (those TLA+ can write)
LineBreakChars == {"\n", "\r", "\f"}

UpperChars == <<"A","B","C","D","E","F","G","H","I","J","K","L","M",
                "N","O","P","Q","R","S","T","U","V","W","X","Y","Z">>

LowerChars == <<"a","b","c","d","e","f","g","h","i","j","k","l","m",
                "n","o","p","q","r","s","t","u","v","w","x","y","z">>

DigitChars == <<"0","1","2","3","4","5","6","7","8","9">>

Range(s) == {s[i] : i \in DOMAIN s}

\* str.lower() on one character
LowerChar(c) ==
  IF c \in Range(UpperChars)
  THEN LowerChars[CHOOSE i \in DOMAIN UpperChars : UpperChars[i] = c]
  ELSE c

\* str.lower()
Lower(s) == [i \in DOMAIN s |-> LowerChar(s[i])]

\* the characters of the class [a-z0-9]
IsSlugChar(c) == c \in Range(LowerChars) \cup Range(DigitChars)

\* s[i:] (1-based, inclusive)
From(s, i) == SubSeq(s, i, Len(s))

\* number of leading characters of s in the set cs
RECURSIVE LeadLen(_, _)
LeadLen(s, cs) ==
  IF s = <<>> \/ Head(s) \notin cs THEN 0 ELSE 1 + LeadLen(Tail(s), cs)

\* number of trailing characters of s in the set cs
RECURSIVE TrailLen(_, _)
TrailLen(s, cs) ==
  IF s = <<>> \/ s[Len(s)] \notin cs THEN 0
  ELSE 1 + TrailLen(SubSeq(s, 1, Len(s) - 1), cs)

\* s.strip(cs)
StripChars(s, cs) ==
  LET a == LeadLen(s, cs)
  IN  IF a = Len(s) THEN <<>> ELSE SubSeq(s, a + 1, Len(s) - TrailLen(s, cs))

\* s.strip()
Strip(s) == StripChars(s, SpaceChars)

\* "".join(parts)
RECURSIVE Join(_)
Join(parts) == IF parts = <<>> THEN <<>> ELSE Head(parts) \o Join(Tail(parts))

\* s.startswith(p)
StartsWith(s, p) == Len(s) >= Len(p) /\ SubSeq(s, 1, Len(p)) = p

\* length of the line at the start of s, its line break included
\* ("\r\n" is one break)
RECURSIVE LineLen(_)
LineLen(s) ==
  IF s = <<>> THEN 0
  ELSE IF Head(s) \in LineBreakChars
       THEN IF Head(s) = "\r" /\ Len(s) >= 2 /\ s[2] = "\n" THEN 2 ELSE 1
       ELSE 1 + LineLen(Tail(s))

\* text.splitlines(keepends=True)
RECURSIVE Splitlines(_)
Splitlines(s) ==
  IF s = <<>> THEN <<>>
  ELSE LET n == LineLen(s)
       IN  <<SubSeq(s, 1, n)>> \o Splitlines(From(s, n + 1))

\* ------------------------------------------------------------------------
\* Fence scanner (builder and validator)
\* ------------------------------------------------------------------------

\* the grave accent, which a TLA+ string literal cannot hold
Grave == "grave"

Backticks == <<Grave, Grave, Grave>>

Tildes == <<"~", "~", "~">>

\* re.match(r"^(\s*)(```|~~~)", line): group(2), or None
FenceMatch(line) ==
  LET rest == From(line, LeadLen(line, SpaceChars) + 1)
  IN  IF StartsWith(rest, Backticks) THEN Backticks
      ELSE IF StartsWith(rest, Tildes) THEN Tildes
      ELSE None

\* the scanner's locals before the loop
ScanInit == [out |-> <<>>, in_fence |-> FALSE, fence_delim |-> None, buf |-> <<>>]

\* flush() that keeps only the lines read outside a fence
FlushLinesProseOnly(st) ==
  IF st.buf # <<>> /\ ~st.in_fence
  THEN [st EXCEPT !.out = Append(@, <<st.in_fence, st.buf>>), !.buf = <<>>]
  ELSE [st EXCEPT !.buf = <<>>]

\* builder: flush() of split_code_fence_regions_lines
FlushLines(st) ==
  IF st.buf # <<>>
  THEN [st EXCEPT !.out = Append(@, <<st.in_fence, st.buf>>), !.buf = <<>>]
  ELSE st

\* a fence that any delimiter line closes, whatever its style
FenceToggleAnyStyle(st, delim) ==
  IF ~st.in_fence
  THEN [st EXCEPT !.in_fence = TRUE, !.fence_delim = delim]
  ELSE [st EXCEPT !.in_fence = FALSE, !.fence_delim = None]

\* the fence state after a delimiter line of style delim
FenceToggle(st, delim) ==
  IF ~st.in_fence
  THEN [st EXCEPT !.in_fence = TRUE, !.fence_delim = delim]
  ELSE IF st.fence_delim = delim
       THEN [st EXCEPT !.in_fence = FALSE, !.fence_delim = None]
       ELSE st

\* builder: one iteration of the loop of split_code_fence_regions_lines
FenceStepLines(st, line) ==
  LET m == FenceMatch(line)
  IN  IF m # None
      THEN LET f == FlushLines(st)
           IN  FenceToggle([f EXCEPT !.out = Append(@, <<TRUE, <<line>>>>)], m)
      ELSE [st EXCEPT !.buf = Append(@, line)]

RECURSIVE FenceFoldLines(_, _)
FenceFoldLines(st, lines) ==
  IF lines = <<>> THEN st
  ELSE FenceFoldLines(FenceStepLines(st, Head(lines)), Tail(lines))

\* builder: split_code_fence_regions_lines(lines)
SplitCodeFenceRegionsLines(lines) == FlushLines(FenceFoldLines(ScanInit, lines)).out

\* validator: flush() of split_code_fence_regions
FlushText(st) ==
  IF st.buf # <<>>
  THEN [st EXCEPT !.out = Append(@, <<st.in_fence, Join(st.buf)>>), !.buf = <<>>]
  ELSE st

\* a validator loop that flags a delimiter line with the fence state it leaves
FenceStepTextFlagAfter(st, line) ==
  LET m == FenceMatch(line)
  IN  IF m # None
      THEN LET t == FenceToggle(FlushText(st), m)
           IN  [t EXCEPT !.out = Append(@, <<t.in_fence, line>>)]
      ELSE [st EXCEPT !.buf = Append(@, line)]

\* validator: one iteration of the loop of split_code_fence_regions
FenceStepText(st, line) ==
  LET m == FenceMatch(line)
  IN  IF m # None
      THEN LET t == FenceToggle(FlushText(st), m)
           IN  [t EXCEPT !.out = Append(@, <<TRUE, line>>)]
      ELSE [st EXCEPT !.buf = Append(@, line)]

RECURSIVE FenceFoldText(_, _)
FenceFoldText(st, lines) ==
  IF lines = <<>> THEN st
  ELSE FenceFoldText(FenceStepText(st, Head(lines)), Tail(lines))

\* validator: split_code_fence_regions(text)
SplitCodeFenceRegions(text) == FlushText(FenceFoldText(ScanInit, Splitlines(text))).out

\* ------------------------------------------------------------------------
\* Slugs, headings, chunk IDs
\* ------------------------------------------------------------------------

RootWord == <<"r", "o", "o", "t">>

\* re.sub(r"[^a-z0-9]+", "-", s)
RECURSIVE SubNonSlug(_)
SubNonSlug(s) ==
  IF s = <<>> THEN <<>>
  ELSE IF IsSlugChar(Head(s)) THEN <<Head(s)>> \o SubNonSlug(Tail(s))
  ELSE LET n == LeadLen(s, Range(s) \ {c \in Range(s) : IsSlugChar(c)})
       IN  <<"-">> \o SubNonSlug(From(s, n + 1))

\* re.sub(r"-{2,}", "-", s)
RECURSIVE SubDashRuns(_)
SubDashRuns(s) ==
  IF s = <<>> THEN <<>>
  ELSE IF Head(s) = "-"
       THEN <<"-">> \o SubDashRuns(From(s, LeadLen(s, {"-"}) + 1))
       ELSE <<Head(s)>> \o SubDashRuns(Tail(s))

\* slugify(s)
Slugify(s) ==
  LET t == StripChars(SubDashRuns(SubNonSlug(Lower(Strip(s)))), {"-"})
  IN  IF t = <<>> THEN RootWord ELSE t

AllIn(s, cs) == \A i \in DOMAIN s : s[i] \in cs

\* re.match(r"^\s*##\s+(.+?)\s*$", line): group(1), or None.
\* After the two markers the rest splits as S X T: S = \s+ (greedy), X = .+?
\* (lazy, no "\n"), T = \s* up to the end or up to a final "\n".
H2Match(line) ==
  LET rest == From(line, LeadLen(line, SpaceChars) + 1)
      r    == From(rest, 3)
      n    == Len(r)
      ends == {n} \cup (IF n > 0 /\ r[n] = "\n" THEN {n - 1} ELSE {})
      ok(a, b) == /\ AllIn(SubSeq(r, 1, a), SpaceChars)
                  /\ "\n" \notin Range(SubSeq(r, a + 1, b))
                  /\ \E e \in ends : b <= e /\ AllIn(SubSeq(r, b + 1, e), SpaceChars)
      as   == {a \in 1..n : \E b \in (a + 1)..n : ok(a, b)}
  IN  IF ~StartsWith(rest, <<"#", "#">>) \/ as = {} THEN None
      ELSE LET a == CHOOSE x \in as : \A y \in as : y <= x
               bs == {b \in (a + 1)..n : ok(a, b)}
               b == CHOOSE x \in bs : \A y \in bs : x <= y
           IN  SubSeq(r, a + 1, b)

\* the line without its line break (str.splitlines() without keepends)
Chomp(line) == SubSeq(line, 1, Len(line) - TrailLen(line, LineBreakChars))

\* re.match(r"^\s*#\s+\S+", line)
H1Match(line) ==
  LET rest == From(line, LeadLen(line, SpaceChars) + 1)
      r    == From(rest, 2)
      w    == LeadLen(r, SpaceChars)
  IN  StartsWith(rest, <<"#">>) /\ w >= 1 /\ w < Len(r)

\* re.sub(r"^\s*#\s+", "", line).strip() for a line H1Match accepts
H1Text(line) ==
  LET rest == From(line, LeadLen(line, SpaceChars) + 1)
      r    == From(rest, 2)
  IN  Strip(From(r, LeadLen(r, SpaceChars) + 1))

\* extract_h1_title(body)
ExtractH1Title(body) ==
  LET ls == Splitlines(body)
      hs == {i \in DOMAIN ls : H1Match(Chomp(ls[i]))}
  IN  IF hs = {} THEN None
      ELSE H1Text(Chomp(ls[CHOOSE i \in hs : \A j \in hs : i <= j]))

\* the decimal digits of n >= 0
RECURSIVE Digits(_)
Digits(n) ==
  IF n < 10 THEN <<DigitChars[n + 1]>>
  ELSE Digits(n \div 10) \o <<DigitChars[(n % 10) + 1]>>

\* f"{i:04d}"
Fmt04d(i) ==
  LET d == Digits(i)
  IN  [k \in 1..(IF Len(d) < 4 THEN 4 - Len(d) ELSE 0) |-> "0"] \o d

\* f"{doc_id}#h2:{slug}#p:{i:04d}"
ChunkId(doc_id, slug, i) ==
  doc_id \o <<"#", "h", "2", ":">> \o slug \o <<"#", "p", ":">> \o Fmt04d(i)

\* sha256_hex(s): the digest stands for the text it was computed from
Sha256Hex(s) == <<"sha256", s>>

\* ------------------------------------------------------------------------
\* Section and paragraph segmenters of the builder
\* ------------------------------------------------------------------------

\* the locals of split_into_h2_sections before its loop
SectInit ==
  [sections |-> <<>>, current_title |-> RootWord, current_slug |-> RootWord,
   current_lines |-> <<>>]

\* push() of split_into_h2_sections
Push(st) ==
  [st EXCEPT !.sections = Append(@, [h2_title |-> st.current_title,
                                     h2_slug  |-> st.current_slug,
                                     lines    |-> st.current_lines]),
             !.current_lines = <<>>]

\* a segmenter that leaves the heading line out of the section it opens
SectLineWithoutHeading(st, line) ==
  IF H2Match(line) # None
  THEN [Push(st) EXCEPT !.current_title = Strip(H2Match(line)),
                        !.current_slug  = Slugify(Strip(H2Match(line))),
                        !.current_lines = <<>>]
  ELSE [st EXCEPT !.current_lines = Append(@, line)]

\* one prose line of split_into_h2_sections
SectLine(st, line) ==
  LET m == H2Match(line)
  IN  IF m # None
      THEN [Push(st) EXCEPT !.current_title = Strip(m),
                            !.current_slug  = Slugify(Strip(m)),
                            !.current_lines = <<line>>]
      ELSE [st EXCEPT !.current_lines = Append(@, line)]

RECURSIVE SectFoldLines(_, _)
SectFoldLines(st, lines) ==
  IF lines = <<>> THEN st
  ELSE SectFoldLines(SectLine(st, Head(lines)), Tail(lines))

\* a region loop that looks for headings in literal regions too
SectRegionAllProse(st, reg) == SectFoldLines(st, reg[2])

\* one iteration of the region loop of split_into_h2_sections
SectRegion(st, reg) ==
  IF reg[1]
  THEN [st EXCEPT !.current_lines = @ \o reg[2]]
  ELSE SectFoldLines(st, reg[2])

RECURSIVE SectFoldRegions(_, _)
SectFoldRegions(st, regs) ==
  IF regs = <<>> THEN st
  ELSE SectFoldRegions(SectRegion(st, Head(regs)), Tail(regs))

\* split_into_h2_sections(body)
SplitIntoH2Sections(body) ==
  Push(SectFoldRegions(SectInit, SplitCodeFenceRegionsLines(Splitlines(body)))).sections

\* the locals of split_section_into_paragraphs before its loop
ParaInit == [paragraphs |-> <<>>, buf |-> <<>>]

\* flush() of split_section_into_paragraphs
ParaFlush(st) ==
  LET text == Strip(Join(st.buf))
  IN  [paragraphs |-> IF text # <<>> THEN Append(st.paragraphs, text \o <<"\n">>)
                      ELSE st.paragraphs,
       buf |-> <<>>]

\* one prose line of split_section_into_paragraphs
ParaLine(st, line) ==
  IF Strip(line) = <<>> THEN ParaFlush(st)
  ELSE [st EXCEPT !.buf = Append(@, line)]

RECURSIVE ParaFoldLines(_, _)
ParaFoldLines(st, lines) ==
  IF lines = <<>> THEN st
  ELSE ParaFoldLines(ParaLine(st, Head(lines)), Tail(lines))

\* one iteration of the region loop of split_section_into_paragraphs
ParaRegion(st, reg) ==
  IF reg[1]
  THEN [st EXCEPT !.buf = @ \o reg[2]]
  ELSE ParaFoldLines(st, reg[2])

RECURSIVE ParaFoldRegions(_, _)
ParaFoldRegions(st, regs) ==
  IF regs = <<>> THEN st
  ELSE ParaFoldRegions(ParaRegion(st, Head(regs)), Tail(regs))

\* split_section_into_paragraphs(lines)
SplitSectionIntoParagraphs(lines) ==
  ParaFlush(ParaFoldRegions(ParaInit, SplitCodeFenceRegionsLines(lines))).paragraphs

\* ------------------------------------------------------------------------
\* Records of the corpus export and entries of the index
\* ------------------------------------------------------------------------

K_id == <<"i", "d">>

K_title == <<"t", "i", "t", "l", "e">>

K_domain == <<"d", "o", "m", "a", "i", "n">>

K_status == <<"s", "t", "a", "t", "u", "s">>

K_audience == <<"a", "u", "d", "i", "e", "n", "c", "e">>

K_tags == <<"t", "a", "g", "s">>

V_stable == <<"s", "t", "a", "b", "l", "e">>

\* a record whose chunk ID is built on the path of the document
MakeRecordPathId(corpus_version, source_path, fm, h1, sec, i, para_text) ==
  [corpus_version |-> corpus_version,
   doc_id         |-> fm[K_id],
   chunk_id       |-> ChunkId(source_path, sec.h2_slug, i),
   source_path    |-> source_path,
   title          |-> fm[K_title],
   domain         |-> fm[K_domain],
   status         |-> fm[K_status],
   audience       |-> fm[K_audience],
   tags           |-> fm[K_tags],
   heading_path   |-> <<h1, sec.h2_title>>,
   content_type   |-> "text/markdown",
   content        |-> para_text,
   sha256         |-> Sha256Hex(para_text),
   char_count     |-> Len(para_text)]

\* the rec dictionary of main for paragraph i (1-based) of section sec
MakeRecord(corpus_version, source_path, fm, h1, sec, i, para_text) ==
  [corpus_version |-> corpus_version,
   doc_id         |-> fm[K_id],
   chunk_id       |-> ChunkId(fm[K_id], sec.h2_slug, i),
   source_path    |-> source_path,
   title          |-> fm[K_title],
   domain         |-> fm[K_domain],
   status         |-> fm[K_status],
   audience       |-> fm[K_audience],
   tags           |-> fm[K_tags],
   heading_path   |-> <<h1, sec.h2_title>>,
   content_type   |-> "text/markdown",
   content        |-> para_text,
   sha256         |-> Sha256Hex(para_text),
   char_count     |-> Len(para_text)]

\* enumerate(paras) without start=1
SectionRecordsFromZero(corpus_version, source_path, fm, h1, sec, paras) ==
  [i \in DOMAIN paras |->
     MakeRecord(corpus_version, source_path, fm, h1, sec, i - 1, paras[i])]

\* the records main appends for one section: enumerate(paras, start=1)
SectionRecords(corpus_version, source_path, fm, h1, sec, paras) ==
  [i \in DOMAIN paras |->
     MakeRecord(corpus_version, source_path, fm, h1, sec, i, paras[i])]

\* h1 = extract_h1_title(doc.body) or title
H1OrTitle(fm, body) ==
  LET h == ExtractH1Title(body)
  IN  IF h = None \/ h = <<>> THEN fm[K_title] ELSE h

RECURSIVE DocRecordsFrom(_, _, _, _, _)
DocRecordsFrom(corpus_version, source_path, fm, h1, secs) ==
  IF secs = <<>> THEN <<>>
  ELSE SectionRecords(corpus_version, source_path, fm, h1, Head(secs),
                      SplitSectionIntoParagraphs(Head(secs).lines))
       \o DocRecordsFrom(corpus_version, source_path, fm, h1, Tail(secs))

\* the records main appends for one included document
DocRecords(corpus_version, source_path, fm, body) ==
  DocRecordsFrom(corpus_version, source_path, fm, H1OrTitle(fm, body),
                 SplitIntoH2Sections(body))

\* the entry main appends to doc_index for one included document
DocIndexEntry(source_path, fm, body, chunk_count) ==
  [doc_id      |-> fm[K_id],
   title       |-> fm[K_title],
   domain      |-> fm[K_domain],
   status      |-> fm[K_status],
   audience    |-> fm[K_audience],
   tags        |-> fm[K_tags],
   source_path |-> source_path,
   body_sha256 |-> Sha256Hex(body),
   char_count  |-> Len(body),
   chunk_count |-> chunk_count]

\* ------------------------------------------------------------------------
\* Ordering of strings and paths
\* ------------------------------------------------------------------------

\* the characters of the model in code point order
AsciiOrder ==
  <<"\t", "\n", "\f", "\r", " ", "!", "#", "-", ".", "/",
    "0", "1", "2", "3", "4", "5", "6", "7", "8", "9", ":">>
  \o UpperChars \o <<"[", "]", "_", Grave>> \o LowerChars \o <<"~">>

\* ord(c), up to an order-preserving renumbering
Ord(c) == CHOOSE i \in DOMAIN AsciiOrder : AsciiOrder[i] = c

\* a < b for two str
RECURSIVE StrLess(_, _)
StrLess(a, b) ==
  IF b = <<>> THEN FALSE
  ELSE IF a = <<>> THEN TRUE
  ELSE IF Head(a) = Head(b) THEN StrLess(Tail(a), Tail(b))
  ELSE Ord(Head(a)) < Ord(Head(b))

\* p < q for two Path objects: their parts compare as lists of str
RECURSIVE PathLess(_, _)
PathLess(p, q) ==
  IF q = <<>> THEN FALSE
  ELSE IF p = <<>> THEN TRUE
  ELSE IF Head(p) = Head(q) THEN PathLess(Tail(p), Tail(q))
  ELSE StrLess(Head(p), Head(q))

\* ------------------------------------------------------------------------
\* Metadata parser
\* ------------------------------------------------------------------------

Dashes == <<"-", "-", "-">>

\* the positions k at which "\s*\n" can end when it starts after position t
\* of s: the line breaks "\n" inside the whitespace run that follows t
BreakEnds(s, t) ==
  {k \in (t + 1)..(t + LeadLen(From(s, t + 1), SpaceChars)) : s[k] = "\n"}

\* "\n---\s*\n" matches right after position e of s
ClosesAfter(s, e) ==
  /\ StartsWith(From(s, e + 1), <<"\n">> \o Dashes)
  /\ BreakEnds(s, e + 4) # {}

SetMax(S) == CHOOSE x \in S : \A y \in S : y <= x

SetMin(S) == CHOOSE x \in S : \A y \in S : x <= y

\* RE_FRONT_MATTER.match(raw): whether it matches, group(1) and m.end().
\* The first "\s*" is greedy, "(.*?)" is lazy, the last "\s*" is greedy.
FrontMatterMatch(raw) ==
  LET opens == IF StartsWith(raw, Dashes) THEN BreakEnds(raw, 3) ELSE {}
      ends(k) == {e \in k..Len(raw) : ClosesAfter(raw, e)}
      good == {k \in opens : ends(k) # {}}
  IN  IF good = {} THEN [matched |-> FALSE]
      ELSE LET k == SetMax(good)
               e == SetMin(ends(k))
           IN  [matched |-> TRUE,
                group1  |-> SubSeq(raw, k + 1, e),
                end     |-> SetMax(BreakEnds(raw, e + 4))]

\* the first position of ": " in line, or 0
RECURSIVE ColonAt(_, _)
ColonAt(line, i) ==
  IF i >= Len(line) THEN 0
  ELSE IF line[i] = ":" /\ line[i + 1] = " " THEN i
  ELSE ColonAt(line, i + 1)

\* the items of a flow sequence "[a, b]" without its brackets
RECURSIVE FlowItems(_)
FlowItems(s) ==
  IF s = <<>> THEN <<>>
  ELSE LET n == LeadLen(s, Range(s) \ {","})
       IN  <<Strip(SubSeq(s, 1, n))>> \o FlowItems(From(s, n + 2))

\* the value text v is a flow sequence
IsFlowSeq(v) == v # <<>> /\ Head(v) = "["

\* the value text v is a double-quoted scalar
IsQuoted(v) == Len(v) >= 2 /\ Head(v) = "\"" /\ v[Len(v)] = "\""

\* a YAML value: a flow sequence, a double-quoted scalar or a plain scalar
YamlValue(v) ==
  IF IsFlowSeq(v) THEN FlowItems(SubSeq(v, 2, Len(v) - 1))
  ELSE IF IsQuoted(v) THEN SubSeq(v, 2, Len(v) - 1)
  ELSE v

\* the value text of a "key: value" line is well formed
YamlValueOk(v) ==
  /\ ColonAt(v, 1) = 0
  /\ (v # <<>> /\ Head(v) = "[") => v[Len(v)] = "]"

RECURSIVE YamlPairs(_, _)
YamlPairs(lines, acc) ==
  IF lines = <<>> THEN acc
  ELSE LET l == Head(lines)
           c == ColonAt(l, 1)
           k == SubSeq(l, 1, c - 1)
           v == YamlValue(Strip(From(l, c + 2)))
       IN  YamlPairs(Tail(lines),
                     [x \in DOMAIN acc \cup {k} |-> IF x = k THEN v ELSE acc[x]])

\* yaml.safe_load(text) for the block mappings of scalars and flow sequences
\* the documents of the model hold: a mapping (seqs: the keys whose value is
\* a list), a scalar (no line is a "key: value" pair), null (nothing but
\* blank lines), or an error
YamlSafeLoad(text) ==
  LET ls    == Splitlines(text)
      lines == [i \in DOMAIN ls |-> Chomp(ls[i])]
      full  == {i \in DOMAIN lines : Strip(lines[i]) # <<>>}
      pairs == {i \in full : ColonAt(lines[i], 1) > 1}
      sel   == [i \in 1..Cardinality(full) |->
                  lines[CHOOSE j \in full :
                          Cardinality({x \in full : x <= j}) = i]]
  IN  IF full = {} THEN [kind |-> "null"]
      ELSE IF pairs = {} THEN [kind |-> "scalar"]
      ELSE IF pairs # full
              \/ \E i \in full :
                   ~YamlValueOk(Strip(From(lines[i], ColonAt(lines[i], 1) + 2)))
           THEN [kind |-> "error"]
      ELSE [kind |-> "map",
            map  |-> YamlPairs(sel, <<>>),
            seqs |-> {SubSeq(l, 1, ColonAt(l, 1) - 1) :
                        l \in {x \in Range(sel) :
                                 IsFlowSeq(Strip(From(x, ColonAt(x, 1) + 2)))}}]

\* parse_doc(path) of the builder: the exception it raises, or the Doc
ParseDoc(raw) ==
  LET m == FrontMatterMatch(raw)
  IN  IF ~m.matched THEN [raised |-> "ValueError"]
      ELSE LET y == YamlSafeLoad(m.group1)
           IN  IF y.kind = "error" THEN [raised |-> "YAMLError"]
               ELSE [raised |-> None,
                     fm     |-> IF y.kind = "null"
                                THEN [kind |-> "map", map |-> <<>>, seqs |-> {}]
                                ELSE y,
                     body   |-> From(raw, m.end + 1)]

\* ------------------------------------------------------------------------
\* State
\* ------------------------------------------------------------------------

VARIABLES
  pc,          \* where the program stands
  body,        \* the body of the document being segmented
  scan,        \* builder's fence scanner: out, in_fence, fence_delim, buf
  scan_rest,   \* lines the builder's scanner has not read yet
  vscan,       \* validator's fence scanner: out, in_fence, fence_delim, buf
  vscan_rest,  \* lines the validator's scanner has not read yet
  sect,        \* split_into_h2_sections: sections, current_*
  sect_rest,   \* regions split_into_h2_sections has not read yet
  sec_rest,    \* sections main has not split into paragraphs yet
  para,        \* split_section_into_paragraphs: paragraphs, buf
  para_rest,   \* regions split_section_into_paragraphs has not read yet
  records,     \* main: records
  doc_index,   \* main: doc_index
  tree,        \* the files under the repository root
  repo_root,   \* the parts of the resolved repository root
  env,         \* command line and environment of the build
  todo,        \* paths iter_docs has not yielded yet
  out,         \* the artifacts in the output directory
  prev,        \* the artifacts of the previous build of the same tree
  run,         \* which build of the tree this is
  errors,      \* validator's main: errors
  warnings,    \* validator's main: warnings
  seen_ids,    \* validator's main: seen_ids
  title_map,   \* validator's main: title_map
  exit_code,   \* the exit status of the validator, once it has one
  raw_text,    \* raw of parse_doc: the text of the file read
  doc,         \* what the two parse_doc made of raw
  prompt       \* build_prompt: its arguments and locals

segVars == <<body, scan, scan_rest, vscan, vscan_rest, sect, sect_rest, sec_rest,
             para, para_rest>>

buildVars == <<doc_index, tree, repo_root, env, todo, out, prev, run>>

valVars == <<errors, warnings, seen_ids, title_map, exit_code>>

parseVars == <<raw_text, doc>>

benchVars == <<prompt>>

restVars == <<valVars, parseVars, benchVars>>

vars == <<pc, records, segVars, buildVars, restVars>>

\* ------------------------------------------------------------------------
\* Segmenting one document, step by step
\* ------------------------------------------------------------------------

F_bt == Backticks \o <<"\n">>

F_td == Tildes \o <<"\n">>

F_h2 == <<"#", "#", " ", "A", "\n">>

F_bang == <<"#", "#", " ", "!", "\n">>

F_blank == <<"\n">>

\* two markers and two spaces
F_spaces == <<"#", "#", " ", " ", "\n">>

F_text == <<"x", "\n">>

F_part == <<"y">>

\* the pieces bodies are made of; F_part has no line break, so that it joins
\* the piece after it
FragmentPool ==
  {F_bt, F_td, F_h2, F_bang, F_spaces, F_blank, F_text, F_part}

\* "# Title\n\nIntro.\n\n## A\n\nPara one.\n\nPara two.\n"
ExampleBody ==
  <<"#", " ", "T", "i", "t", "l", "e", "\n", "\n",
    "I", "n", "t", "r", "o", ".", "\n", "\n",
    "#", "#", " ", "A", "\n", "\n",
    "P", "a", "r", "a", " ", "o", "n", "e", ".", "\n", "\n",
    "P", "a", "r", "a", " ", "t", "w", "o", ".", "\n">>

\* "swd.api.x.001"
ExampleDocId == <<"s", "w", "d", ".", "a", "p", "i", ".", "x", ".", "0", "0", "1">>

ExampleFm ==
  [k \in {K_id, K_title, K_domain, K_status, K_audience, K_tags} |->
     CASE k = K_id       -> ExampleDocId
       [] k = K_title    -> <<"X">>
       [] k = K_domain   -> <<"s", "w", "d">>
       [] k = K_status   -> V_stable
       [] k = K_audience -> <<"d", "e", "v">>
       [] k = K_tags     -> <<<<"a", "p", "i">>>>]

\* "docs/x.md"
ExamplePath == <<"d", "o", "c", "s", "/", "x", ".", "m", "d">>

Bodies ==
  {Join(fs) : fs \in UNION {[1..n -> FragmentPool] : n \in 0..MaxFrags}}
  \cup {ExampleBody}

\* the variables of the tree build, at rest
BuildIdle ==
  /\ doc_index = <<>>
  /\ tree = {}
  /\ repo_root = <<>>
  /\ env = None
  /\ todo = <<>>
  /\ out = None
  /\ prev = None
  /\ run = 0

\* the validator's variables, before it runs
ValIdle ==
  /\ errors = <<>>
  /\ warnings = <<>>
  /\ seen_ids = <<>>
  /\ title_map = <<>>
  /\ exit_code = <<>>

\* no file is being parsed
ParseIdle ==
  /\ raw_text = <<>>
  /\ doc = None

\* build_prompt is not running
BenchIdle == prompt = None

RestIdle == ValIdle /\ ParseIdle /\ BenchIdle

Init ==
  /\ body \in Bodies
  /\ pc = "scan"
  /\ scan = ScanInit
  /\ scan_rest = Splitlines(body)
  /\ vscan = ScanInit
  /\ vscan_rest = Splitlines(body)
  /\ sect = SectInit
  /\ sect_rest = <<>>
  /\ sec_rest = <<>>
  /\ para = ParaInit
  /\ para_rest = <<>>
  /\ records = <<>>
  /\ BuildIdle
  /\ RestIdle

\* builder: the scanner reads one line
ScanLine ==
  /\ pc = "scan"
  /\ scan_rest # <<>>
  /\ scan' = FenceStepLines(scan, Head(scan_rest))
  /\ scan_rest' = Tail(scan_rest)
  /\ UNCHANGED <<pc, records, body, vscan, vscan_rest, sect, sect_rest, sec_rest,
                 para, para_rest, buildVars, restVars>>

\* builder: the scanner's final flush()
ScanFlush ==
  /\ pc = "scan"
  /\ scan_rest = <<>>
  /\ scan' = FlushLines(scan)
  /\ pc' = "vscan"
  /\ UNCHANGED <<records, body, scan_rest, vscan, vscan_rest, sect, sect_rest,
                 sec_rest, para, para_rest, buildVars, restVars>>

\* validator: the scanner reads one line
VScanLine ==
  /\ pc = "vscan"
  /\ vscan_rest # <<>>
  /\ vscan' = FenceStepText(vscan, Head(vscan_rest))
  /\ vscan_rest' = Tail(vscan_rest)
  /\ UNCHANGED <<pc, records, body, scan, scan_rest, sect, sect_rest, sec_rest,
                 para, para_rest, buildVars, restVars>>

\* validator: the scanner's final flush()
VScanFlush ==
  /\ pc = "vscan"
  /\ vscan_rest = <<>>
  /\ vscan' = FlushText(vscan)
  /\ sect_rest' = scan.out
  /\ pc' = "sect"
  /\ UNCHANGED <<records, body, scan, scan_rest, vscan_rest, sect, sec_rest,
                 para, para_rest, buildVars, restVars>>

\* split_into_h2_sections reads one region
SectStep ==
  /\ pc = "sect"
  /\ sect_rest # <<>>
  /\ sect' = SectRegion(sect, Head(sect_rest))
  /\ sect_rest' = Tail(sect_rest)
  /\ UNCHANGED <<pc, records, body, scan, scan_rest, vscan, vscan_rest, sec_rest,
                 para, para_rest, buildVars, restVars>>

\* the final push() of split_into_h2_sections; main starts its section loop
SectPush ==
  /\ pc = "sect"
  /\ sect_rest = <<>>
  /\ sect' = Push(sect)
  /\ sec_rest' = sect'.sections
  /\ pc' = "para_begin"
  /\ UNCHANGED <<records, body, scan, scan_rest, vscan, vscan_rest, sect_rest,
                 para, para_rest, buildVars, restVars>>

\* main calls split_section_into_paragraphs for the next section
ParaBegin ==
  /\ pc = "para_begin"
  /\ sec_rest # <<>>
  /\ para' = ParaInit
  /\ para_rest' = SplitCodeFenceRegionsLines(Head(sec_rest).lines)
  /\ pc' = "para"
  /\ UNCHANGED <<records, body, scan, scan_rest, vscan, vscan_rest, sect,
                 sect_rest, sec_rest, buildVars, restVars>>

\* split_section_into_paragraphs reads one region
ParaStep ==
  /\ pc = "para"
  /\ para_rest # <<>>
  /\ para' = ParaRegion(para, Head(para_rest))
  /\ para_rest' = Tail(para_rest)
  /\ UNCHANGED <<pc, records, body, scan, scan_rest, vscan, vscan_rest, sect,
                 sect_rest, sec_rest, buildVars, restVars>>

\* the final flush() of split_section_into_paragraphs; main appends the
\* section's records
ParaEnd ==
  /\ pc = "para"
  /\ para_rest = <<>>
  /\ para' = ParaFlush(para)
  /\ records' = records \o SectionRecords("dev-unknown", ExamplePath, ExampleFm,
                                          H1OrTitle(ExampleFm, body),
                                          Head(sec_rest), para'.paragraphs)
  /\ sec_rest' = Tail(sec_rest)
  /\ pc' = "para_begin"
  /\ UNCHANGED <<body, scan, scan_rest, vscan, vscan_rest, sect, sect_rest,
                 para_rest, buildVars, restVars>>

\* main has read the last section
Finish ==
  /\ pc = "para_begin"
  /\ sec_rest = <<>>
  /\ pc' = "done"
  /\ UNCHANGED <<records, segVars, buildVars, restVars>>

Next ==
  \/ ScanLine
  \/ ScanFlush
  \/ VScanLine
  \/ VScanFlush
  \/ SectStep
  \/ SectPush
  \/ ParaBegin
  \/ ParaStep
  \/ ParaEnd
  \/ Finish

Spec == Init /\ [][Next]_vars

\* the step-by-step run ends with the records the functions return
StepwiseAgrees ==
  pc = "done" =>
    /\ records = DocRecords("dev-unknown", ExamplePath, ExampleFm, body)
    /\ sect.sections = SplitIntoH2Sections(body)
    /\ scan.out = SplitCodeFenceRegionsLines(Splitlines(body))
    /\ vscan.out = SplitCodeFenceRegions(body)

\* ------------------------------------------------------------------------
\* Building a tree of documents
\* ------------------------------------------------------------------------

\* most files a tree of Init holds
MaxDocs == 3

S_docs == <<"d", "o", "c", "s">>

S_drafts == <<"_", "d", "r", "a", "f", "t", "s">>

S_templates == <<"_", "t", "e", "m", "p", "l", "a", "t", "e", "s">>

S_deprecated == <<"_", "d", "e", "p", "r", "e", "c", "a", "t", "e", "d">>

\* a set a build would share with the validator, which excludes less
ExcludedDirsTemplatesOnly == {S_templates}

\* EXCLUDED_DIRS of the builder
ExcludedDirs == {S_drafts, S_templates, S_deprecated}

MdSuffix == <<".", "m", "d">>

\* s.endswith(suf)
EndsWith(s, suf) ==
  Len(s) >= Len(suf) /\ SubSeq(s, Len(s) - Len(suf) + 1, Len(s)) = suf

\* docs_root.rglob("*.md"): the paths found, as parts from the root down
Rglob(files, root) ==
  {root \o f.path :
     f \in {g \in files : /\ Len(g.path) >= 2
                          /\ g.path[1] = S_docs
                          /\ EndsWith(g.path[Len(g.path)], MdSuffix)}}

\* the orders in which the file system may list a set of paths
Listings(paths) ==
  {l \in [1..Cardinality(paths) -> paths] : Range(l) = paths}

RECURSIVE InsertPath(_, _)
InsertPath(p, sorted) ==
  IF sorted = <<>> THEN <<p>>
  ELSE IF PathLess(p, Head(sorted)) THEN <<p>> \o sorted
  ELSE <<Head(sorted)>> \o InsertPath(p, Tail(sorted))

\* sorted(paths)
RECURSIVE SortPaths(_)
SortPaths(l) ==
  IF l = <<>> THEN <<>>
  ELSE InsertPath(l[Len(l)], SortPaths(SubSeq(l, 1, Len(l) - 1)))

\* the two tests of iter_docs that skip a path
SkippedPath(p) ==
  \/ \E i \in DOMAIN p : StartsWith(p[i], <<".">>)
  \/ \E i \in DOMAIN p : p[i] \in ExcludedDirs

KeptPath(p) == ~SkippedPath(p)

\* iter_docs(docs_root), for one listing of the files
IterDocs(listing) == SelectSeq(SortPaths(listing), KeptPath)

\* "/".join(parts)
RECURSIVE JoinPath(_)
JoinPath(parts) ==
  IF parts = <<>> THEN <<>>
  ELSE IF Len(parts) = 1 THEN parts[1]
  ELSE parts[1] \o <<"/">> \o JoinPath(Tail(parts))

\* str(md_path.relative_to(repo_root))
SourcePath(p, root) == JoinPath(SubSeq(p, Len(root) + 1, Len(p)))

\* a or b
Or(a, b) == IF a \in {None, ""} THEN b ELSE a

\* corpus_version of main
CorpusVersion(e) == Or(Or(e.version_arg, e.ref_name), "dev-unknown")

\* git_sha of main
GitSha(e) == IF e.git_sha = None THEN "unknown" ELSE e.git_sha

\* a manifest that is always stamped with the wall clock
BuildTimestampFromClock(e, now) == now

\* build_timestamp_utc of main
BuildTimestamp(e, now) == IF e.timestamp \in {None, ""} THEN now ELSE e.timestamp

RECURSIVE InsertEntry(_, _)
InsertEntry(x, sorted) ==
  IF sorted = <<>> THEN <<x>>
  ELSE IF StrLess(x.doc_id, Head(sorted).doc_id) THEN <<x>> \o sorted
  ELSE <<Head(sorted)>> \o InsertEntry(x, Tail(sorted))

\* an index left in the order the documents were read
SortByDocIdSkipped(entries) == entries

\* doc_index.sort(key=lambda d: d["doc_id"]): a stable sort
RECURSIVE SortByDocId(_)
SortByDocId(entries) ==
  IF entries = <<>> THEN <<>>
  ELSE InsertEntry(entries[Len(entries)],
                   SortByDocId(SubSeq(entries, 1, Len(entries) - 1)))

\* sorted(EXCLUDED_DIRS)
SortedExcludedDirs ==
  CHOOSE l \in Listings(ExcludedDirs) :
    \A i, j \in DOMAIN l : i < j => StrLess(l[i], l[j])

\* the manifest dictionary of main
Manifest(e, recs, index, now) ==
  [corpus_version      |-> CorpusVersion(e),
   git_sha             |-> GitSha(e),
   build_timestamp_utc |-> BuildTimestamp(e, now),
   included_statuses   |-> <<"stable">>,
   excluded_dirs       |-> SortedExcludedDirs,
   record_count        |-> Len(recs),
   doc_count           |-> Len(index),
   output              |-> [corpus_jsonl |-> "corpus.jsonl",
                            index_json   |-> "index.json"]]

\* fm.get("status") == "stable"
StatusIsStable(fm) == K_status \in DOMAIN fm.map /\ fm.map[K_status] = V_stable

\* the keys main reads with fm[...]
RequiredKeys == {K_id, K_title, K_domain, K_tags, K_audience, K_status}

\* an included document whose chunk counter was not reset for it
IncludeOutcomeRunningCount(source_path, fm, text, recs) ==
  [kind  |-> "include",
   recs  |-> recs,
   entry |-> DocIndexEntry(source_path, fm, text, Len(records) + Len(recs))]

\* an included document: its records and its index entry
IncludeOutcome(source_path, fm, text, recs) ==
  [kind  |-> "include",
   recs  |-> recs,
   entry |-> DocIndexEntry(source_path, fm, text, Len(recs))]

\* the loop body of main for the parsed document d: what main reads of the
\* metadata, in the order it reads it
OutcomeOf(version, source_path, d) ==
  IF d.raised # None THEN [kind |-> "raise", exc |-> d.raised]
  ELSE IF d.fm.kind # "map" THEN [kind |-> "raise", exc |-> "AttributeError"]
  ELSE IF ~StatusIsStable(d.fm) THEN [kind |-> "skip"]
  ELSE IF ~(RequiredKeys \subseteq DOMAIN d.fm.map)
       THEN [kind |-> "raise", exc |-> "KeyError"]
  ELSE IncludeOutcome(source_path, d.fm.map, d.body,
                      DocRecords(version, source_path, d.fm.map, d.body))

\* what one iteration of main's loop does with the raw text of md_path:
\* raise, skip the document, or append its records and its index entry
DocOutcome(version, source_path, raw) ==
  OutcomeOf(version, source_path, ParseDoc(raw))

\* "key: value\n"
MetaLine(k, v) == k \o <<":", " ">> \o v \o <<"\n">>

\* a raw document: a metadata block with the six fields main reads, and text
RawDoc(id, status, text) ==
  Dashes \o <<"\n">>
    \o MetaLine(K_id, id) \o MetaLine(K_title, <<"T">>)
    \o MetaLine(K_domain, <<"s", "h">>) \o MetaLine(K_status, status)
    \o MetaLine(K_audience, <<"g">>) \o MetaLine(K_tags, <<"[", "t", "]">>)
    \o Dashes \o <<"\n">> \o text

V_draft == <<"d", "r", "a", "f", "t">>

\* docs/a.md, with ID "b": two paragraphs
File_a ==
  [path |-> <<S_docs, <<"a", ".", "m", "d">>>>,
   raw  |-> RawDoc(<<"b">>, V_stable, <<"x", "\n", "\n", "y", "\n">>)]

\* docs/b.md, with ID "a": a blank line after the metadata block, a section
File_b ==
  [path |-> <<S_docs, <<"b", ".", "m", "d">>>>,
   raw  |-> RawDoc(<<"a">>, V_stable, <<"\n">> \o F_h2 \o F_text)]

File_drafts ==
  [path |-> <<S_docs, S_drafts, <<"c", ".", "m", "d">>>>,
   raw  |-> RawDoc(<<"c">>, V_stable, F_text)]

File_templates ==
  [path |-> <<S_docs, S_templates, <<"c", ".", "m", "d">>>>,
   raw  |-> RawDoc(<<"c">>, V_stable, F_text)]

File_deprecated ==
  [path |-> <<S_docs, S_deprecated, <<"c", ".", "m", "d">>>>,
   raw  |-> RawDoc(<<"c">>, V_stable, F_text)]

File_hidden ==
  [path |-> <<S_docs, <<".", "h">>, <<"c", ".", "m", "d">>>>,
   raw  |-> RawDoc(<<"c">>, V_stable, F_text)]

\* docs/d.md, a draft
File_draft ==
  [path |-> <<S_docs, <<"d", ".", "m", "d">>>>,
   raw  |-> RawDoc(<<"d">>, V_draft, F_text)]

\* docs/e.md, without a metadata block
File_nofm ==
  [path |-> <<S_docs, <<"e", ".", "m", "d">>>>,
   raw  |-> F_text]

\* docs/f.md, whose metadata block is not YAML: "a: b: c"
File_badyaml ==
  [path |-> <<S_docs, <<"f", ".", "m", "d">>>>,
   raw  |-> Dashes \o <<"\n">> \o MetaLine(<<"a">>, <<"b", ":", " ", "c">>)
              \o Dashes \o <<"\n">> \o F_text]

\* docs/g.md, whose metadata block declares no status
File_nostatus ==
  [path |-> <<S_docs, <<"g", ".", "m", "d">>>>,
   raw  |-> Dashes \o <<"\n">> \o MetaLine(K_id, <<"g">>) \o Dashes \o <<"\n">> \o F_text]

\* docs/h.md, with the ID of docs/a.md and an empty body: no paragraph
File_empty ==
  [path |-> <<S_docs, <<"h", ".", "m", "d">>>>,
   raw  |-> RawDoc(<<"b">>, V_stable, <<>>)]

FilePool ==
  {File_a, File_b, File_drafts, File_templates, File_deprecated, File_hidden,
   File_draft, File_nofm, File_badyaml, File_nostatus, File_empty}

Trees == {t \in SUBSET FilePool : Cardinality(t) <= MaxDocs}

\* where the repository may live
RootPool == {<<<<"/">>, <<"r">>>>, <<<<"/">>, <<".", "c", "i">>, <<"r">>>>}

\* --corpus-version, GITHUB_REF_NAME, GITHUB_SHA and BUILD_TIMESTAMP_UTC
EnvPool ==
  {[version_arg |-> "corpus-v1", ref_name |-> "v9", git_sha |-> "abc",
    timestamp |-> "2026-02-11T00:00:00+00:00"],
   [version_arg |-> None, ref_name |-> "v9", git_sha |-> None,
    timestamp |-> None],
   [version_arg |-> None, ref_name |-> None, git_sha |-> "abc",
    timestamp |-> ""]}

\* the readings of the wall clock
Clock == {"2026-11-04T09:00:00+00:00", "2026-11-04T09:00:01+00:00"}

\* an output directory without artifacts
NoArtifacts == [corpus |-> <<>>, index |-> <<>>, manifest |-> <<>>]

\* the variables of the segmentation of one document, at rest
SegIdle ==
  /\ body = <<>>
  /\ scan = ScanInit
  /\ scan_rest = <<>>
  /\ vscan = ScanInit
  /\ vscan_rest = <<>>
  /\ sect = SectInit
  /\ sect_rest = <<>>
  /\ sec_rest = <<>>
  /\ para = ParaInit
  /\ para_rest = <<>>

InitBuild ==
  /\ pc = "start"
  /\ tree \in Trees
  /\ repo_root \in RootPool
  /\ env \in EnvPool
  /\ todo = <<>>
  /\ records = <<>>
  /\ doc_index = <<>>
  /\ out = NoArtifacts
  /\ prev = NoArtifacts
  /\ run = 1
  /\ SegIdle
  /\ RestIdle

\* the file main reads at path p
FileAt(p) == CHOOSE f \in tree : repo_root \o f.path = p

\* main enters its loop: iter_docs lists and sorts the tree
Start ==
  /\ pc = "start"
  /\ \E listing \in Listings(Rglob(tree, repo_root)) : todo' = IterDocs(listing)
  /\ pc' = "loop"
  /\ UNCHANGED <<records, doc_index, tree, repo_root, env, out, prev, run, segVars,
               restVars>>

\* the effect on main's state of one iteration with outcome o
LoopStep(o) ==
  /\ pc' = IF o.kind = "raise" THEN "raised" ELSE "loop"
  /\ todo' = IF o.kind = "raise" THEN todo ELSE Tail(todo)
  /\ records' = IF o.kind = "include" THEN records \o o.recs ELSE records
  /\ doc_index' = IF o.kind = "include" THEN Append(doc_index, o.entry)
                  ELSE doc_index

\* a loop that writes the export as it goes
ProcessDocStreaming ==
  /\ pc = "loop"
  /\ todo # <<>>
  /\ LoopStep(DocOutcome(CorpusVersion(env), SourcePath(Head(todo), repo_root),
                         FileAt(Head(todo)).raw))
  /\ out' = [out EXCEPT !.corpus = <<records'>>]
  /\ UNCHANGED <<tree, repo_root, env, prev, run, segVars, restVars>>

\* one iteration of main's loop over iter_docs
ProcessDoc ==
  /\ pc = "loop"
  /\ todo # <<>>
  /\ LoopStep(DocOutcome(CorpusVersion(env), SourcePath(Head(todo), repo_root),
                         FileAt(Head(todo)).raw))
  /\ UNCHANGED <<tree, repo_root, env, out, prev, run, segVars, restVars>>

\* after the loop: doc_index.sort, then corpus.jsonl is written
WriteCorpus ==
  /\ pc = "loop"
  /\ todo = <<>>
  /\ doc_index' = SortByDocId(doc_index)
  /\ out' = [out EXCEPT !.corpus = <<records>>]
  /\ pc' = "write_index"
  /\ UNCHANGED <<records, tree, repo_root, env, todo, prev, run, segVars,
               restVars>>

\* index.json is written
WriteIndex ==
  /\ pc = "write_index"
  /\ out' = [out EXCEPT !.index = <<doc_index>>]
  /\ pc' = "write_manifest"
  /\ UNCHANGED <<records, doc_index, tree, repo_root, env, todo, prev, run, segVars,
               restVars>>

\* manifest.json is written; main returns 0
WriteManifest ==
  /\ pc = "write_manifest"
  /\ \E now \in Clock :
       out' = [out EXCEPT !.manifest = <<Manifest(env, records, doc_index, now)>>]
  /\ pc' = "done"
  /\ UNCHANGED <<records, doc_index, tree, repo_root, env, todo, prev, run, segVars,
               restVars>>

\* the same tree is built again, with the same command line and environment,
\* into a fresh output directory
Rebuild ==
  /\ pc \in {"done", "raised"}
  /\ run = 1
  /\ prev' = out
  /\ out' = NoArtifacts
  /\ records' = <<>>
  /\ doc_index' = <<>>
  /\ todo' = <<>>
  /\ run' = 2
  /\ pc' = "start"
  /\ UNCHANGED <<tree, repo_root, env, segVars, restVars>>

\* after a build that returned, a document is added to the tree and main runs
\* again with the same command line: out_dir.mkdir(exist_ok=True) leaves the
\* artifacts of the earlier run in place
Rerun ==
  /\ pc = "done"
  /\ run = 1
  /\ Cardinality(tree) < MaxDocs
  /\ \E f \in FilePool \ tree : tree' = tree \cup {f}
  /\ prev' = out
  /\ records' = <<>>
  /\ doc_index' = <<>>
  /\ todo' = <<>>
  /\ run' = 3
  /\ pc' = "start"
  /\ UNCHANGED <<out, repo_root, env, segVars, restVars>>

NextBuild ==
  \/ Start
  \/ ProcessDoc
  \/ WriteCorpus
  \/ WriteIndex
  \/ WriteManifest
  \/ Rebuild
  \/ Rerun

SpecBuild == InitBuild /\ [][NextBuild]_vars

\* ------------------------------------------------------------------------
\* Validator: traversal, metadata, taxonomy and date checks
\* ------------------------------------------------------------------------

\* a validator that skips what the builder skips
HiddenOrReservedPath(p) == SkippedPath(p)

\* the test of iter_markdown_files that skips a path
HiddenPath(p) == \E i \in DOMAIN p : StartsWith(p[i], <<".">>)

S_git == <<".", "g", "i", "t">>

S_github == <<".", "g", "i", "t", "h", "u", "b">>

\* the test of the validator's main that skips a path
GitPath(p) == \E i \in DOMAIN p : p[i] \in {S_git, S_github}

VisitedPath(p) == ~HiddenPath(p) /\ ~GitPath(p)

\* the paths the loop of the validator's main works on, for one listing
IterMarkdownFiles(listing) == SelectSeq(SortPaths(listing), VisitedPath)

\* parse_doc(path) of the validator: every failure is a ValueError
ParseDocV(raw) ==
  LET m == FrontMatterMatch(raw)
  IN  IF ~m.matched THEN [raised |-> "ValueError", why |-> "missing"]
      ELSE LET y == YamlSafeLoad(m.group1)
           IN  IF y.kind = "error" THEN [raised |-> "ValueError", why |-> "invalid"]
               ELSE [raised       |-> None,
                     front_matter |-> IF y.kind = "null"
                                      THEN [kind |-> "map", map |-> <<>>, seqs |-> {}]
                                      ELSE y,
                     body         |-> From(raw, m.end + 1)]

K_last_reviewed ==
  <<"l", "a", "s", "t", "_", "r", "e", "v", "i", "e", "w", "e", "d">>

K_summary == <<"s", "u", "m", "m", "a", "r", "y">>

\* the attributes the declared schema requires of a document, in the order
\* the schema names them
SchemaRequired ==
  <<K_id, K_title, K_domain, K_status, K_audience, K_tags, K_last_reviewed,
    K_summary>>

\* an entry of errors: the path of the document, the check that failed,
\* what it failed on and, for a duplicate ID, the path that holds the ID
Error(p, check, detail, other) ==
  [path |-> p, check |-> check, detail |-> detail, other |-> other]

\* validator.iter_errors(fm): the metadata must be a mapping that has the
\* required attributes, the tags a list and every other attribute a string
SchemaErrors(p, fm) ==
  IF fm.kind # "map" THEN <<Error(p, "schema", <<>>, <<>>)>>
  ELSE LET Violated(k) ==
             \/ k \notin DOMAIN fm.map
             \/ (k \in fm.seqs) # (k = K_tags)
           ks == SelectSeq(SchemaRequired, Violated)
       IN  [i \in DOMAIN ks |-> Error(p, "schema", ks[i], <<>>)]

\* taxonomy.json: domains, status, audience and the curated tags
AllowedDomains == {<<"s", "h">>}

AllowedStatus == {V_stable, <<"d", "r", "a", "f", "t">>}

AllowedAudience == {<<"g">>}

TagPolicyMode == "curated"

CuratedTags == {<<"t">>}

\* fm.get(k)
Get(fm, k) == IF k \in DOMAIN fm.map THEN fm.map[k] ELSE <<>>

\* fm.get(k) is None or empty
Falsy(fm, k) == k \notin DOMAIN fm.map \/ fm.map[k] = <<>>

\* k holds a list, which no set or dict can be asked about
Unhashable(fm, k) == k \in fm.seqs

\* "domain not in allowed_domains" and its two siblings
EnumErrors(p, fm, k, check, allowed) ==
  IF k \in DOMAIN fm.map /\ fm.map[k] \in allowed THEN <<>>
  ELSE <<Error(p, check, Get(fm, k), <<>>)>>

TaxonomyErrors(p, fm) ==
  EnumErrors(p, fm, K_domain, "domain", AllowedDomains)
    \o EnumErrors(p, fm, K_status, "status", AllowedStatus)
    \o EnumErrors(p, fm, K_audience, "audience", AllowedAudience)

\* tags = fm.get("tags") or []: the items of a list, the characters of a str
TagItems(fm) ==
  IF Falsy(fm, K_tags) THEN <<>>
  ELSE IF K_tags \in fm.seqs THEN fm.map[K_tags]
  ELSE [i \in DOMAIN fm.map[K_tags] |-> <<fm.map[K_tags][i]>>]

TagErrors(p, fm) ==
  IF TagPolicyMode # "curated" THEN <<>>
  ELSE LET Uncurated(t) == t \notin CuratedTags
           bad == SelectSeq(TagItems(fm), Uncurated)
       IN  [i \in DOMAIN bad |-> Error(p, "tag", bad[i], <<>>)]

\* the parts of s between the occurrences of the character c: s.split(c)
RECURSIVE SplitOn(_, _)
SplitOn(s, c) ==
  LET n == LeadLen(s, Range(s) \ {c})
  IN  IF n = Len(s) THEN <<s>>
      ELSE <<SubSeq(s, 1, n)>> \o SplitOn(From(s, n + 2), c)

\* int(x) succeeds: decimal digits, white space around them allowed
IsInt(x) == Strip(x) # <<>> /\ AllIn(Strip(x), Range(DigitChars))

DigitValue(c) == (CHOOSE i \in DOMAIN DigitChars : DigitChars[i] = c) - 1

\* the value of a string of decimal digits
RECURSIVE DigitsValue(_)
DigitsValue(s) ==
  IF s = <<>> THEN 0
  ELSE 10 * DigitsValue(SubSeq(s, 1, Len(s) - 1)) + DigitValue(s[Len(s)])

IntOf(x) == DigitsValue(Strip(x))

IsLeap(y) == (y % 4 = 0 /\ y % 100 # 0) \/ y % 400 = 0

DaysInMonth(y, m) ==
  IF m = 2 THEN (IF IsLeap(y) THEN 29 ELSE 28)
  ELSE IF m \in {4, 6, 9, 11} THEN 30 ELSE 31

\* date(y, m, d) does not raise
IsDate(y, m, d) ==
  /\ y \in 1..9999
  /\ m \in 1..12
  /\ d \in 1..DaysInMonth(y, m)

\* a > b for two dates <<y, m, d>>
DateAfter(a, b) ==
  \/ a[1] > b[1]
  \/ a[1] = b[1] /\ a[2] > b[2]
  \/ a[1] = b[1] /\ a[2] = b[2] /\ a[3] > b[3]

\* lr parses: three integers that make a calendar date
DateParses(parts) ==
  /\ Len(parts) = 3
  /\ \A i \in 1..3 : IsInt(parts[i])
  /\ IsDate(IntOf(parts[1]), IntOf(parts[2]), IntOf(parts[3]))

\* the check of last_reviewed, on the day today
DateErrors(p, fm, today) ==
  IF Falsy(fm, K_last_reviewed) THEN <<>>
  ELSE IF K_last_reviewed \in fm.seqs
       THEN <<Error(p, "date_invalid", <<>>, <<>>)>>
  ELSE LET lr == fm.map[K_last_reviewed]
           parts == SplitOn(lr, "-")
       IN  IF ~DateParses(parts) THEN <<Error(p, "date_invalid", lr, <<>>)>>
           ELSE IF DateAfter(<<IntOf(parts[1]), IntOf(parts[2]), IntOf(parts[3])>>,
                             today)
                THEN <<Error(p, "date_future", lr, <<>>)>>
           ELSE <<>>

\* ------------------------------------------------------------------------
\* Validator: markup and link checks
\* ------------------------------------------------------------------------

\* pat occurs in s: re.search of a literal
Contains(s, pat) ==
  \E i \in 1..(Len(s) - Len(pat) + 1) : SubSeq(s, i, i + Len(pat) - 1) = pat

\* RE_HTML_COMMENT.search(seg)
HasHtmlComment(seg) == Contains(seg, <<"<", "!", "-", "-">>)

TagOpeners == Range(UpperChars) \cup Range(LowerChars) \cup {"!", "/"}

\* RE_HTML_TAG.search(seg)
HasHtmlTag(seg) ==
  \E i \in 1..(Len(seg) - 2) :
    /\ seg[i] = "<"
    /\ seg[i + 1] \in TagOpeners
    /\ \E j \in (i + 2)..Len(seg) : seg[j] = ">"

\* the loop of validate_no_html over the regions that are left
RECURSIVE NoHtmlFrom(_)
NoHtmlFrom(regions) ==
  IF regions = <<>> THEN <<>>
  ELSE IF Head(regions)[1] THEN NoHtmlFrom(Tail(regions))
  ELSE IF HasHtmlComment(Head(regions)[2]) THEN <<"html_comment">>
  ELSE IF HasHtmlTag(Head(regions)[2]) THEN <<"html_tag">>
  ELSE NoHtmlFrom(Tail(regions))

\* validate_no_html(doc)
ValidateNoHtml(text) == NoHtmlFrom(SplitCodeFenceRegions(text))

\* RE_MD_LINK.findall(seg) from position i on: the targets, in order
RECURSIVE FindLinks(_, _)
FindLinks(seg, i) ==
  IF i > Len(seg) THEN <<>>
  ELSE IF seg[i] # "[" THEN FindLinks(seg, i + 1)
  ELSE LET j == i + 1 + LeadLen(From(seg, i + 1), Range(seg) \ {"]"})
           n == LeadLen(From(seg, j + 2), Range(seg) \ {")"})
       IN  IF /\ j + 1 <= Len(seg)
              /\ seg[j + 1] = "("
              /\ n >= 1
              /\ j + 2 + n <= Len(seg)
           THEN <<SubSeq(seg, j + 2, j + 1 + n)>> \o FindLinks(seg, j + 3 + n)
           ELSE FindLinks(seg, i + 1)

\* s.split(c, 1)[0]
Before(s, c) == SubSeq(s, 1, LeadLen(s, Range(s) \ {c}))

Http == <<"h", "t", "t", "p", ":">>

Https == <<"h", "t", "t", "p", "s", ":">>

Mailto == <<"m", "a", "i", "l", "t", "o", ":">>

\* re.match(r"^(https?|mailto):", t)
IsExternal(t) == StartsWith(t, Http) \/ StartsWith(t, Https) \/ StartsWith(t, Mailto)

\* check_target: the path text that is left of a target, or <<>> when the
\* target is skipped
TargetPath(target) ==
  LET t == Strip(target)
  IN  IF t = <<>> \/ Head(t) = "#" \/ IsExternal(t) THEN <<>>
      ELSE Before(Before(t, " "), "#")

\* the parts of Path(t): empty parts and "." are dropped
PathParts(t) ==
  LET Named(x) == x # <<>> /\ x # <<".">>
  IN  SelectSeq(SplitOn(t, "/"), Named)

\* doc_dir / t
JoinDir(doc_dir, t) ==
  IF Head(t) = "/" THEN <<<<"/">>>> \o PathParts(t) ELSE doc_dir \o PathParts(t)

\* Path.resolve() of an absolute path in a tree without symbolic links
RECURSIVE Resolve(_, _)
Resolve(acc, parts) ==
  IF parts = <<>> THEN acc
  ELSE IF Head(parts) = <<".", ".">>
       THEN Resolve(IF Len(acc) > 1 THEN SubSeq(acc, 1, Len(acc) - 1) ELSE acc,
                    Tail(parts))
  ELSE Resolve(Append(acc, Head(parts)), Tail(parts))

\* a is an ancestor of b, or b itself
IsPrefix(a, b) == Len(a) <= Len(b) /\ SubSeq(b, 1, Len(a)) = a

S_schema == <<"s", "c", "h", "e", "m", "a">>

\* the two files main loads from schema_root
SchemaFiles ==
  {<<S_schema, <<"t", "a", "x", "o", "n", "o", "m", "y", ".", "j", "s", "o", "n">>>>,
   <<S_schema, <<"f", "r", "o", "n", "t", "_", "m", "a", "t", "t", "e", "r", ".",
                 "s", "c", "h", "e", "m", "a", ".", "j", "s", "o", "n">>>>}

\* candidate.exists(): a file of the repository or a directory above one
Exists(candidate, root, files) ==
  \/ IsPrefix(candidate, root)
  \/ \E rel \in {f.path : f \in files} \cup SchemaFiles :
       IsPrefix(candidate, root \o rel)

\* check_target(target): the error it appends, if any
CheckTarget(doc_dir, target, root, files) ==
  IF TargetPath(target) = <<>> THEN <<>>
  ELSE IF ~IsPrefix(root, Resolve(<<>>, JoinDir(doc_dir, TargetPath(target))))
       THEN <<[check |-> "link_outside", detail |-> target]>>
  ELSE IF ~Exists(Resolve(<<>>, JoinDir(doc_dir, TargetPath(target))), root, files)
       THEN <<[check |-> "link_broken", detail |-> target]>>
  ELSE <<>>

RECURSIVE CheckTargets(_, _, _, _)
CheckTargets(doc_dir, targets, root, files) ==
  IF targets = <<>> THEN <<>>
  ELSE CheckTarget(doc_dir, Head(targets), root, files)
         \o CheckTargets(doc_dir, Tail(targets), root, files)

\* the loop of validate_links over the regions that are left
RECURSIVE LinksFrom(_, _, _, _)
LinksFrom(doc_dir, regions, root, files) ==
  IF regions = <<>> THEN <<>>
  ELSE (IF Head(regions)[1] THEN <<>>
        ELSE CheckTargets(doc_dir, FindLinks(Head(regions)[2], 1), root, files))
         \o LinksFrom(doc_dir, Tail(regions), root, files)

\* validate_links(doc, repo_root)
ValidateLinks(p, text, root, files) ==
  LinksFrom(SubSeq(p, 1, Len(p) - 1), SplitCodeFenceRegions(text), root, files)

\* re.search(r"^\s*#\s+\S+", body, flags=re.MULTILINE): white space may run
\* over line ends on both sides of the marker
HasH1(text) ==
  \E i \in DOMAIN text :
    /\ text[i] = "#"
    /\ LET w == TrailLen(SubSeq(text, 1, i - 1), SpaceChars)
       IN  w = i - 1 \/ "\n" \in Range(SubSeq(text, i - w, i - 1))
    /\ LET a == LeadLen(From(text, i + 1), SpaceChars)
       IN  a >= 1 /\ i + a < Len(text)

\* ------------------------------------------------------------------------
\* Validator: one document, and the run over a tree
\* ------------------------------------------------------------------------

\* the day the validator runs
Today == <<2026, 2, 11>>

\* the taxonomy errors main appends before a list-valued attribute stops it
RECURSIVE TaxonomyUpTo(_, _, _)
TaxonomyUpTo(p, fm, checks) ==
  IF checks = <<>> \/ Unhashable(fm, Head(checks)[1]) THEN <<>>
  ELSE EnumErrors(p, fm, Head(checks)[1], Head(checks)[2], Head(checks)[3])
         \o TaxonomyUpTo(p, fm, Tail(checks))

TaxonomyChecks ==
  <<<<K_domain, "domain", AllowedDomains>>,
    <<K_status, "status", AllowedStatus>>,
    <<K_audience, "audience", AllowedAudience>>>>

\* "x in S" raises TypeError for one of domain, status, audience
TaxonomyRaises(fm) ==
  \E k \in {K_domain, K_status, K_audience} : Unhashable(fm, k)

\* "doc_id in seen_ids" raises TypeError
IdRaises(fm) == ~Falsy(fm, K_id) /\ Unhashable(fm, K_id)

\* title.strip() raises AttributeError
TitleRaises(fm) ==
  /\ ~Falsy(fm, K_domain)
  /\ ~Falsy(fm, K_title)
  /\ K_title \in fm.seqs

\* the exception that ends main while it works on a parsed document, or None
RaisedBy(fm) ==
  IF fm.kind # "map" THEN "AttributeError"
  ELSE IF TaxonomyRaises(fm) \/ IdRaises(fm) THEN "TypeError"
  ELSE IF TitleRaises(fm) THEN "AttributeError"
  ELSE None

\* the duplicate-ID check: the error it appends, if any
IdErrors(p, fm, seen) ==
  IF Falsy(fm, K_id) \/ fm.map[K_id] \notin DOMAIN seen THEN <<>>
  ELSE <<Error(p, "duplicate_id", fm.map[K_id], seen[fm.map[K_id]])>>

\* a check that records the latest holder of an ID
SeenAfterLatest(p, fm, seen) ==
  IF Falsy(fm, K_id) THEN seen
  ELSE [x \in DOMAIN seen \cup {fm.map[K_id]} |->
          IF x = fm.map[K_id] THEN p ELSE seen[x]]

\* seen_ids after the duplicate-ID check
SeenAfter(p, fm, seen) ==
  IF Falsy(fm, K_id) \/ fm.map[K_id] \in DOMAIN seen THEN seen
  ELSE [x \in DOMAIN seen \cup {fm.map[K_id]} |->
          IF x = fm.map[K_id] THEN p ELSE seen[x]]

\* the errors of validate_no_html and validate_links, with the path
BodyErrors(p, text, root, files) ==
  LET h == ValidateNoHtml(text)
      l == ValidateLinks(p, text, root, files)
  IN  [i \in DOMAIN h |-> Error(p, h[i], <<>>, <<>>)]
        \o [i \in DOMAIN l |-> Error(p, l[i].check, l[i].detail, <<>>)]

\* the errors main appends for a parsed document that raises nothing
DocErrors(p, fm, text, seen, root, files) ==
  SchemaErrors(p, fm)
    \o TaxonomyErrors(p, fm)
    \o TagErrors(p, fm)
    \o IdErrors(p, fm, seen)
    \o DateErrors(p, fm, Today)
    \o BodyErrors(p, text, root, files)

\* the errors main has appended when the document makes it raise
ErrorsBeforeRaise(p, fm, text, seen, root, files) ==
  IF fm.kind # "map" THEN SchemaErrors(p, fm)
  ELSE IF TaxonomyRaises(fm)
       THEN SchemaErrors(p, fm) \o TaxonomyUpTo(p, fm, TaxonomyChecks)
  ELSE IF IdRaises(fm)
       THEN SchemaErrors(p, fm) \o TaxonomyErrors(p, fm) \o TagErrors(p, fm)
  ELSE DocErrors(p, fm, text, seen, root, files)

\* (domain, title.strip().lower())
TitleKey(fm) == <<fm.map[K_domain], Lower(Strip(fm.map[K_title]))>>

\* title_map.setdefault(key, []).append(md_path); title_map keeps its keys
\* in the order they were first set
TitleMapAfter(p, fm, tm) ==
  IF Falsy(fm, K_domain) \/ Falsy(fm, K_title) THEN tm
  ELSE IF \E i \in DOMAIN tm : tm[i].key = TitleKey(fm)
       THEN [i \in DOMAIN tm |->
               IF tm[i].key = TitleKey(fm)
               THEN [tm[i] EXCEPT !.paths = Append(@, p)]
               ELSE tm[i]]
  ELSE Append(tm, [key |-> TitleKey(fm), paths |-> <<p>>])

Warning(kind, about) == [kind |-> kind, about |-> about]

\* the warning for a body without top-level heading
H1Warnings(p, text) ==
  IF HasH1(text) THEN <<>> ELSE <<Warning("no_h1", <<p>>)>>

\* the warnings for the (domain, title) pairs several documents share
TitleWarnings(tm) ==
  LET Shared(e) == Len(e.paths) > 1
      shared == SelectSeq(tm, Shared)
  IN  [i \in DOMAIN shared |-> Warning("duplicate_title", shared[i].paths)]

\* most files a tree of InitValidate holds
MaxVDocs == 3

\* the text of a metadata block: one line per <<key, value text>> pair
RECURSIVE MetaLines(_)
MetaLines(fields) ==
  IF fields = <<>> THEN <<>>
  ELSE MetaLine(Head(fields)[1], Head(fields)[2]) \o MetaLines(Tail(fields))

\* a raw document with the metadata fields and the text given
RawMeta(fields, text) ==
  Dashes \o <<"\n">> \o MetaLines(fields) \o Dashes \o <<"\n">> \o text

D_past == <<"\"", "2", "0", "2", "6", "-", "0", "2", "-", "1", "0", "\"">>

D_future == <<"\"", "2", "9", "9", "9", "-", "0", "1", "-", "0", "1", "\"">>

D_invalid == <<"\"", "2", "0", "2", "6", "-", "0", "2", "-", "3", "0", "\"">>

\* metadata that passes every check, for the ID and title given
GoodMeta(id, title) ==
  <<<<K_id, id>>, <<K_title, title>>, <<K_domain, <<"s", "h">>>>,
    <<K_status, V_stable>>, <<K_audience, <<"g">>>>,
    <<K_tags, <<"[", "t", "]">>>>, <<K_last_reviewed, D_past>>,
    <<K_summary, <<"s">>>>>>

\* fields with the value text of key k replaced by v
With(fields, k, v) ==
  [i \in DOMAIN fields |-> IF fields[i][1] = k THEN <<k, v>> ELSE fields[i]]

MdName(c) == <<c, ".", "m", "d">>

B_h1 == <<"#", " ", "T", "\n", "x", "\n">>

B_link_missing == <<"[", "l", "]", "(", "n", ".", "m", "d", ")", "\n">>

B_html == <<"<", "b", ">", "\n">>

\* docs/a.md: nothing to report
VFile_a ==
  [path |-> <<S_docs, MdName("a")>>,
   raw  |-> RawMeta(GoodMeta(<<"a">>, <<"T">>), B_h1)]

\* docs/b.md: the ID and title of docs/a.md, no top-level heading
VFile_b ==
  [path |-> <<S_docs, MdName("b")>>,
   raw  |-> RawMeta(GoodMeta(<<"a">>, <<"t", " ">>), F_text)]

\* docs/c.md: the ID of docs/a.md once more
VFile_c ==
  [path |-> <<S_docs, MdName("c")>>,
   raw  |-> RawMeta(GoodMeta(<<"a">>, <<"C">>), B_h1)]

\* docs/w.md: the title of docs/a.md under another ID, no top-level heading:
\* warnings only
VFile_w ==
  [path |-> <<S_docs, MdName("w")>>,
   raw  |-> RawMeta(GoodMeta(<<"w">>, <<"T">>), F_text)]

\* docs/m.md: no summary, unknown domain, uncurated tag, the ID of docs/a.md,
\* a date in the future, markup and a broken link
VFile_m ==
  [path |-> <<S_docs, MdName("m")>>,
   raw  |-> RawMeta(
              SubSeq(With(With(With(GoodMeta(<<"a">>, <<"M">>),
                                    K_domain, <<"z">>),
                               K_tags, <<"[", "q", "]">>),
                          K_last_reviewed, D_future), 1, 7),
              B_h1 \o B_html \o B_link_missing)]

\* docs/i.md: a date that is no calendar date
VFile_i ==
  [path |-> <<S_docs, MdName("i")>>,
   raw  |-> RawMeta(With(GoodMeta(<<"i">>, <<"I">>), K_last_reviewed, D_invalid),
                    B_h1)]

\* docs/_drafts/d.md: an uncurated tag
VFile_drafts ==
  [path |-> <<S_docs, S_drafts, MdName("d")>>,
   raw  |-> RawMeta(With(GoodMeta(<<"d">>, <<"D">>), K_tags, <<"[", "q", "]">>),
                    B_h1)]

\* docs/.h/h.md: an uncurated tag, in a hidden directory
VFile_hidden ==
  [path |-> <<S_docs, <<".", "h">>, MdName("h")>>,
   raw  |-> RawMeta(With(GoodMeta(<<"h">>, <<"H">>), K_tags, <<"[", "q", "]">>),
                    B_h1)]

\* docs/e.md: no metadata block
VFile_nofm ==
  [path |-> <<S_docs, MdName("e")>>,
   raw  |-> B_h1]

\* docs/s.md: a metadata block that is a scalar
VFile_scalar ==
  [path |-> <<S_docs, MdName("s")>>,
   raw  |-> Dashes \o <<"\n", "s", "\n">> \o Dashes \o <<"\n">> \o B_h1]

\* docs/l.md: a domain that is a list
VFile_listdomain ==
  [path |-> <<S_docs, MdName("l")>>,
   raw  |-> RawMeta(With(GoodMeta(<<"l">>, <<"L">>), K_domain, <<"[", "s", "h", "]">>),
                    B_h1)]

VFilePool ==
  {VFile_a, VFile_b, VFile_c, VFile_w, VFile_m, VFile_i, VFile_drafts,
   VFile_hidden, VFile_nofm, VFile_scalar, VFile_listdomain}

VTrees == {t \in SUBSET VFilePool : Cardinality(t) <= MaxVDocs}

InitValidate ==
  /\ pc = "vstart"
  /\ tree \in VTrees
  /\ repo_root \in RootPool
  /\ todo = <<>>
  /\ records = <<>>
  /\ doc_index = <<>>
  /\ env = None
  /\ out = None
  /\ prev = None
  /\ run = 0
  /\ SegIdle
  /\ RestIdle

\* main enters its loop: iter_markdown_files lists and sorts the tree
VStart ==
  /\ pc = "vstart"
  /\ \E listing \in Listings(Rglob(tree, repo_root)) :
       todo' = IterMarkdownFiles(listing)
  /\ pc' = "vloop"
  /\ UNCHANGED <<records, doc_index, tree, repo_root, env, out, prev, run,
                 segVars, restVars>>

\* parse_doc raised: the error is recorded and the loop continues
VisitUnparsable(p, d) ==
  /\ errors' = Append(errors, Error(p, "parse", <<>>, <<>>))
  /\ todo' = Tail(todo)
  /\ UNCHANGED <<pc, warnings, seen_ids, title_map, exit_code>>

\* an exception leaves main: the interpreter prints a traceback and exits
\* with status 1
VisitRaising(p, d) ==
  /\ errors' = errors \o ErrorsBeforeRaise(p, d.front_matter, d.body, seen_ids,
                                           repo_root, tree)
  /\ seen_ids' = IF d.front_matter.kind = "map"
                    /\ ~TaxonomyRaises(d.front_matter)
                    /\ ~IdRaises(d.front_matter)
                 THEN SeenAfter(p, d.front_matter, seen_ids)
                 ELSE seen_ids
  /\ pc' = "vraised"
  /\ exit_code' = <<1>>
  /\ UNCHANGED <<todo, warnings, title_map>>

\* every check of the loop body runs
VisitChecked(p, d) ==
  /\ errors' = errors \o DocErrors(p, d.front_matter, d.body, seen_ids,
                                   repo_root, tree)
  /\ seen_ids' = SeenAfter(p, d.front_matter, seen_ids)
  /\ title_map' = TitleMapAfter(p, d.front_matter, title_map)
  /\ warnings' = warnings \o H1Warnings(p, d.body)
  /\ todo' = Tail(todo)
  /\ UNCHANGED <<pc, exit_code>>

\* the body of main's loop for the path p, parse_doc having returned d
VisitStep(p, d) ==
  IF d.raised # None THEN VisitUnparsable(p, d)
  ELSE IF RaisedBy(d.front_matter) # None THEN VisitRaising(p, d)
  ELSE VisitChecked(p, d)

\* one iteration of main's loop over iter_markdown_files
VisitDoc ==
  /\ pc = "vloop"
  /\ todo # <<>>
  /\ VisitStep(Head(todo), ParseDocV(FileAt(Head(todo)).raw))
  /\ UNCHANGED <<records, doc_index, tree, repo_root, env, out, prev, run,
                 segVars, parseVars, benchVars>>

\* a validator that fails on warnings as well
ExitCodeStrict(errs, warns) == IF errs # <<>> \/ warns # <<>> THEN 1 ELSE 0

\* what main returns, the lists of errors and warnings being complete
ExitCode(errs, warns) == IF errs # <<>> THEN 1 ELSE 0

\* after the loop: the title collisions are reported and main returns
VReport ==
  /\ pc = "vloop"
  /\ todo = <<>>
  /\ warnings' = warnings \o TitleWarnings(title_map)
  /\ exit_code' = <<ExitCode(errors, warnings')>>
  /\ pc' = "vdone"
  /\ UNCHANGED <<records, errors, seen_ids, title_map, segVars, buildVars,
                 parseVars, benchVars>>

NextValidate ==
  \/ VStart
  \/ VisitDoc
  \/ VReport

SpecValidate == InitValidate /\ [][NextValidate]_vars

\* ------------------------------------------------------------------------
\* Parsing one file (specification SpecParse)
\* ------------------------------------------------------------------------

\* most pieces a raw document of InitParse is made of
MaxPieces == 4

P_dashes == Dashes \o <<"\n">>

P_dashes_sp == Dashes \o <<" ", "\n">>

P_pair == MetaLine(<<"a">>, <<"b">>)

P_colons == MetaLine(<<"a">>, <<"b", ":", " ", "c">>)

P_space == <<" ", "\n">>

\* the pieces raw documents are made of; F_part has no line break
PiecePool ==
  {P_dashes, P_dashes_sp, P_pair, P_colons, P_space, F_blank, F_text, F_part}

RawDocs ==
  {Join(ps) : ps \in UNION {[1..n -> PiecePool] : n \in 0..MaxPieces}}

InitParse ==
  /\ pc = "pstart"
  /\ raw_text \in RawDocs
  /\ doc = None
  /\ records = <<>>
  /\ SegIdle
  /\ BuildIdle
  /\ ValIdle
  /\ BenchIdle

\* parse_doc of the builder reads the file
ParseForBuild ==
  /\ pc = "pstart"
  /\ doc' = ParseDoc(raw_text)
  /\ pc' = "parsed"
  /\ UNCHANGED <<raw_text, records, segVars, buildVars, valVars, benchVars>>

\* parse_doc of the validator reads the file
ParseForValidate ==
  /\ pc = "pstart"
  /\ doc' = ParseDocV(raw_text)
  /\ pc' = "vparsed"
  /\ UNCHANGED <<raw_text, records, segVars, buildVars, valVars, benchVars>>

NextParse ==
  \/ ParseForBuild
  \/ ParseForValidate

SpecParse == InitParse /\ [][NextParse]_vars

\* ------------------------------------------------------------------------
\* The validator's link check on one document (specification SpecLinks)
\* ------------------------------------------------------------------------

\* most lines a body of InitLinks holds
MaxLinkLines == 2

\* a line that links to target
LinkLine(target) == <<"[", "l", "]", "(">> \o target \o <<")", "\n">>

\* docs/a.md, a file of the tree
T_here == MdName("a")

\* docs/n.md, no file of the tree
T_missing == MdName("n")

T_titled == MdName("n") \o <<" ", "\"", "t", "\"">>

T_here_anchor == MdName("a") \o <<"#", "s">>

\* the directory above docs: the repository root
T_root == <<".", ".">>

\* two directories above docs: outside the repository
T_up == <<".", ".", "/", ".", ".", "/", "x">>

T_anchor == <<"#", "s">>

T_http == Http \o <<"/", "/", "x">>

T_mailto == Mailto \o <<"x">>

\* an absolute path
T_abs == <<"/", "x", ".", "m", "d">>

LinkPool ==
  {LinkLine(t) : t \in {T_here, T_missing, T_titled, T_here_anchor, T_root,
                        T_up, T_anchor, T_http, T_mailto, T_abs}}
    \cup {F_bt, F_text}

LinkBodies ==
  {Join(ls) : ls \in UNION {[1..n -> LinkPool] : n \in 0..MaxLinkLines}}

\* the document docs/b.md of a tree that also holds docs/a.md is about to be
\* checked
InitLinks ==
  /\ pc = "lstart"
  /\ tree = {VFile_a, VFile_b}
  /\ repo_root \in RootPool
  /\ todo = <<repo_root \o VFile_b.path>>
  /\ body \in LinkBodies
  /\ records = <<>>
  /\ doc_index = <<>>
  /\ env = None
  /\ out = None
  /\ prev = None
  /\ run = 0
  /\ scan = ScanInit
  /\ scan_rest = <<>>
  /\ vscan = ScanInit
  /\ vscan_rest = <<>>
  /\ sect = SectInit
  /\ sect_rest = <<>>
  /\ sec_rest = <<>>
  /\ para = ParaInit
  /\ para_rest = <<>>
  /\ RestIdle

\* validate_links(doc, repo_root), doc being the document at Head(todo) with
\* the body given
CheckLinks ==
  /\ pc = "lstart"
  /\ errors' = ValidateLinks(Head(todo), body, repo_root, tree)
  /\ todo' = Tail(todo)
  /\ pc' = "linked"
  /\ UNCHANGED <<records, segVars, doc_index, tree, repo_root, env, out, prev,
                 run, warnings, seen_ids, title_map, exit_code, parseVars, benchVars>>

NextLinks == CheckLinks

SpecLinks == InitLinks /\ [][NextLinks]_vars

\* ------------------------------------------------------------------------
\* The benchmark harness: build_prompt (specification SpecPrompt)
\* ------------------------------------------------------------------------

\* most document references a question of InitPrompt holds
MaxRefs == 3

\* the largest max_context_chars of InitPrompt
MaxContextChars == 48

\* the largest max_chunks_per_doc of InitPrompt
MaxChunksPerDoc == 2

\* corpus_docs: two documents, of three chunks and of one
CorpusDocs ==
  [d \in {<<"a">>, <<"b">>} |->
     IF d = <<"a">>
     THEN [doc_id |-> <<"a">>, title |-> <<"T">>,
           chunks |-> <<<<<<"a", "1">>, <<"x">>>>,
                        <<<<"a", "2">>, <<"x", "y", "z">>>>,
                        <<<<"a", "3">>, <<"x">>>>>>]
     ELSE [doc_id |-> <<"b">>, title |-> <<"U", "u">>,
           chunks |-> <<<<<<"b", "1">>, <<>>>>>>]]

\* the document references a question may hold; no document has ID "z"
RefPool == {<<"a">>, <<"b">>, <<"z">>}

\* doc_refs_ordered: refs without the repetitions, first occurrences kept
RECURSIVE DocRefsOrdered(_, _)
DocRefsOrdered(refs, seen_docs) ==
  IF refs = <<>> THEN <<>>
  ELSE IF Head(refs) \in seen_docs THEN DocRefsOrdered(Tail(refs), seen_docs)
  ELSE <<Head(refs)>> \o DocRefsOrdered(Tail(refs), seen_docs \cup {Head(refs)})

\* f"\n[DOC {doc.doc_id}] {doc.title}\n"
Header(d) ==
  <<"\n", "[", "D", "O", "C", " ">> \o d.doc_id \o <<"]", " ">> \o d.title
    \o <<"\n">>

\* f"- ({chunk_id}) {content}\n"
Block(chunk) ==
  <<"-", " ", "(">> \o chunk[1] \o <<")", " ">> \o chunk[2] \o <<"\n">>

\* a test that lets every text in
FitsAlways(text, remaining) == TRUE

\* the negation of "len(text) > remaining"
Fits(text, remaining) == Len(text) <= remaining

InitPrompt ==
  /\ pc = "bstart"
  /\ \E refs \in UNION {[1..n -> RefPool] : n \in 0..MaxRefs},
        chars \in 0..MaxContextChars, per_doc \in 0..MaxChunksPerDoc :
       prompt = [doc_refs           |-> refs,
                 max_context_chars  |-> chars,
                 max_chunks_per_doc |-> per_doc,
                 remaining          |-> chars,
                 doc_refs_ordered   |-> <<>>,
                 context_parts      |-> <<>>,
                 included_chunk_ids |-> <<>>,
                 chunks_left        |-> <<>>,
                 count              |-> 0,
                 excerpts           |-> <<>>]
  /\ records = <<>>
  /\ body = <<>>
  /\ scan = ScanInit
  /\ scan_rest = <<>>
  /\ vscan = ScanInit
  /\ vscan_rest = <<>>
  /\ sect = SectInit
  /\ sect_rest = <<>>
  /\ sec_rest = <<>>
  /\ para = ParaInit
  /\ para_rest = <<>>
  /\ BuildIdle
  /\ ValIdle
  /\ ParseIdle

\* what no step of build_prompt changes
BenchFrame == UNCHANGED <<records, segVars, buildVars, valVars, parseVars>>

\* the first loop: the references are put in order, repetitions left out
OrderRefs ==
  /\ pc = "bstart"
  /\ prompt' = [prompt EXCEPT
                  !.doc_refs_ordered = DocRefsOrdered(prompt.doc_refs, {})]
  /\ pc' = "bdoc"
  /\ BenchFrame

\* a reference to a document the corpus does not hold: continue
DocAbsent ==
  /\ pc = "bdoc"
  /\ prompt.doc_refs_ordered # <<>>
  /\ Head(prompt.doc_refs_ordered) \notin DOMAIN CorpusDocs
  /\ prompt' = [prompt EXCEPT !.doc_refs_ordered = Tail(@)]
  /\ UNCHANGED pc
  /\ BenchFrame

\* the header of the next document does not fit: break
HeaderBreak ==
  /\ pc = "bdoc"
  /\ prompt.doc_refs_ordered # <<>>
  /\ Head(prompt.doc_refs_ordered) \in DOMAIN CorpusDocs
  /\ ~Fits(Header(CorpusDocs[Head(prompt.doc_refs_ordered)]), prompt.remaining)
  /\ pc' = "bjoin"
  /\ UNCHANGED prompt
  /\ BenchFrame

\* the header of the next document is appended and its chunk loop begins
DocOpen ==
  /\ pc = "bdoc"
  /\ prompt.doc_refs_ordered # <<>>
  /\ Head(prompt.doc_refs_ordered) \in DOMAIN CorpusDocs
  /\ Fits(Header(CorpusDocs[Head(prompt.doc_refs_ordered)]), prompt.remaining)
  /\ prompt' =
       [prompt EXCEPT
          !.context_parts =
             Append(@, Header(CorpusDocs[Head(prompt.doc_refs_ordered)])),
          !.remaining =
             @ - Len(Header(CorpusDocs[Head(prompt.doc_refs_ordered)])),
          !.chunks_left = CorpusDocs[Head(prompt.doc_refs_ordered)].chunks,
          !.count = 0,
          !.doc_refs_ordered = Tail(@)]
  /\ pc' = "bchunk"
  /\ BenchFrame

\* the next chunk of the document is appended
ChunkAdd ==
  /\ pc = "bchunk"
  /\ prompt.chunks_left # <<>>
  /\ prompt.count < prompt.max_chunks_per_doc
  /\ Fits(Block(Head(prompt.chunks_left)), prompt.remaining)
  /\ prompt' =
       [prompt EXCEPT
          !.context_parts = Append(@, Block(Head(prompt.chunks_left))),
          !.remaining = @ - Len(Block(Head(prompt.chunks_left))),
          !.included_chunk_ids = Append(@, Head(prompt.chunks_left)[1]),
          !.count = @ + 1,
          !.chunks_left = Tail(@)]
  /\ UNCHANGED pc
  /\ BenchFrame

\* the chunk loop breaks: the document has its share, or the block does not
\* fit
ChunkBreak ==
  /\ pc = "bchunk"
  /\ prompt.chunks_left # <<>>
  /\ \/ prompt.count >= prompt.max_chunks_per_doc
     \/ ~Fits(Block(Head(prompt.chunks_left)), prompt.remaining)
  /\ pc' = "bdoc"
  /\ UNCHANGED prompt
  /\ BenchFrame

\* the chunk loop ends: the document has no more chunks
ChunksDone ==
  /\ pc = "bchunk"
  /\ prompt.chunks_left = <<>>
  /\ pc' = "bdoc"
  /\ UNCHANGED prompt
  /\ BenchFrame

\* the document loop ends
DocsDone ==
  /\ pc = "bdoc"
  /\ prompt.doc_refs_ordered = <<>>
  /\ pc' = "bjoin"
  /\ UNCHANGED prompt
  /\ BenchFrame

\* "".join(context_parts).rstrip(), the excerpts of the prompt returned
JoinParts ==
  /\ pc = "bjoin"
  /\ prompt' =
       [prompt EXCEPT
          !.excerpts =
             SubSeq(Join(prompt.context_parts), 1,
                    Len(Join(prompt.context_parts))
                      - TrailLen(Join(prompt.context_parts), SpaceChars))]
  /\ pc' = "bdone"
  /\ BenchFrame

NextPrompt ==
  \/ OrderRefs
  \/ DocAbsent
  \/ HeaderBreak
  \/ DocOpen
  \/ ChunkAdd
  \/ ChunkBreak
  \/ ChunksDone
  \/ DocsDone
  \/ JoinParts

SpecPrompt == InitPrompt /\ [][NextPrompt]_vars

\* ------------------------------------------------------------------------
\* Claims about the segmentation of one document (specification Spec)
\* ------------------------------------------------------------------------

\* the (chunk ID, content) pairs of the records, in emission order
ChunkPairs == [i \in DOMAIN records |-> <<records[i].chunk_id, records[i].content>>]

\* C1: the chunk IDs emitted for one document are pairwise distinct.
ChunkIdsDistinct ==
  pc = "done" =>
    \A i, j \in DOMAIN records :
      i # j => records[i].chunk_id # records[j].chunk_id

\* "swd.api.x.001#h2:root#p:"
ExampleRootPrefix ==
  ExampleDocId \o <<"#", "h", "2", ":", "r", "o", "o", "t", "#", "p", ":">>

\* "swd.api.x.001#h2:a#p:"
ExampleAPrefix == ExampleDocId \o <<"#", "h", "2", ":", "a", "#", "p", ":">>

T_Title == <<"#", " ", "T", "i", "t", "l", "e">>

T_Intro == <<"I", "n", "t", "r", "o", ".">>

T_HeadA == <<"#", "#", " ", "A">>

T_ParaOne == <<"P", "a", "r", "a", " ", "o", "n", "e", ".">>

T_ParaTwo == <<"P", "a", "r", "a", " ", "t", "w", "o", ".">>

\* a record has chunk ID id and, up to surrounding whitespace, content text
HasChunk(id, text) ==
  \E i \in DOMAIN records :
    records[i].chunk_id = id /\ Strip(records[i].content) = text

\* C2 as stated: the example body yields root#p:0001 "Intro.", a#p:0001
\* "Para one." and a#p:0002 "Para two.".
ExampleAsStated ==
  (pc = "done" /\ body = ExampleBody) =>
    /\ HasChunk(ExampleRootPrefix \o <<"0", "0", "0", "1">>, T_Intro)
    /\ HasChunk(ExampleAPrefix \o <<"0", "0", "0", "1">>, T_ParaOne)
    /\ HasChunk(ExampleAPrefix \o <<"0", "0", "0", "2">>, T_ParaTwo)

\* C2 amended: the example body yields five chunks, the heading lines being
\* paragraphs of their sections: root#p:0001 "# Title\n", root#p:0002
\* "Intro.\n", a#p:0001 "## A\n", a#p:0002 "Para one.\n", a#p:0003
\* "Para two.\n" (chunk ID = document ID, section slug, 1-based four-digit
\* paragraph index within the section).
ExampleChunks ==
  (pc = "done" /\ body = ExampleBody) =>
    ChunkPairs =
      << <<ExampleRootPrefix \o <<"0", "0", "0", "1">>, T_Title \o <<"\n">>>>,
         <<ExampleRootPrefix \o <<"0", "0", "0", "2">>, T_Intro \o <<"\n">>>>,
         <<ExampleAPrefix \o <<"0", "0", "0", "1">>, T_HeadA \o <<"\n">>>>,
         <<ExampleAPrefix \o <<"0", "0", "0", "2">>, T_ParaOne \o <<"\n">>>>,
         <<ExampleAPrefix \o <<"0", "0", "0", "3">>, T_ParaTwo \o <<"\n">>>> >>

ExampleBuilt == pc = "done" /\ body = ExampleBody /\ Len(records) = 5

\* the lines of a sequence of (flag, lines) groups, in order
RECURSIVE ConcatGroups(_)
ConcatGroups(regs) ==
  IF regs = <<>> THEN <<>> ELSE Head(regs)[2] \o ConcatGroups(Tail(regs))

\* C3: the groups of the fence scanner, concatenated in output order, are the
\* input (no line dropped, duplicated or reordered), whatever the fences, in
\* the builder and in the validator; while it scans, the groups, the buffer
\* and the unread lines together are the input, and the scanner always has a
\* next step.
FenceConcat ==
  /\ ConcatGroups(scan.out) \o scan.buf \o scan_rest = Splitlines(body)
  /\ ConcatGroups(vscan.out) \o Join(vscan.buf) \o Join(vscan_rest) = body
  /\ pc = "scan" => ENABLED (ScanLine \/ ScanFlush)
  /\ pc = "vscan" => ENABLED (VScanLine \/ VScanFlush)
  /\ pc \notin {"scan"} => ConcatGroups(scan.out) = Splitlines(body)
  /\ pc \notin {"scan", "vscan"} => ConcatGroups(vscan.out) = body

UnterminatedScanned ==
  /\ pc = "sect"
  /\ scan.in_fence /\ Len(scan.out) >= 2
  /\ vscan.in_fence /\ Len(vscan.out) >= 2

\* the style of the fence that is open when line j of ls is read, or None:
\* a fence is opened by a delimiter line read outside any fence and closed by
\* the next delimiter line of the same style
RECURSIVE OpenStyleBefore(_, _)
OpenStyleBefore(ls, j) ==
  IF j <= 1 THEN None
  ELSE LET open == OpenStyleBefore(ls, j - 1)
           d    == FenceMatch(ls[j - 1])
       IN  IF d = None THEN open
           ELSE IF open = None THEN d
           ELSE IF open = d THEN None
           ELSE open

\* line j of the body follows a fence opener that no delimiter of the same
\* style has closed yet
InOpenFence(j) == OpenStyleBefore(Splitlines(body), j) # None

RECURSIVE CountSectionLines(_)
CountSectionLines(secs) ==
  IF secs = <<>> THEN 0 ELSE Len(Head(secs).lines) + CountSectionLines(Tail(secs))

RECURSIVE CountGroupLines(_)
CountGroupLines(regs) ==
  IF regs = <<>> THEN 0 ELSE Len(Head(regs)[2]) + CountGroupLines(Tail(regs))

\* the body lines split_into_h2_sections has read
SectRead == CountSectionLines(sect.sections) + Len(sect.current_lines)

\* the body lines split_section_into_paragraphs has read, over all sections
ParaRead ==
  (Len(Splitlines(body)) - CountSectionLines(sec_rest))
    + (Len(Head(sec_rest).lines) - CountGroupLines(para_rest))

\* C4: a line read inside an opened and not yet closed fence (a heading line
\* and a blank line included, and up to the end of input when the fence is
\* never closed) starts no section and ends no paragraph: it is appended to
\* the open section and to the paragraph being accumulated.
FenceKeepsSegments ==
  [][ /\ (pc = "sect" /\ sect_rest # <<>>
           /\ \E j \in (SectRead + 1)..(SectRead + Len(Head(sect_rest)[2])) :
                InOpenFence(j))
         => /\ sect'.sections = sect.sections
            /\ sect'.current_lines = sect.current_lines \o Head(sect_rest)[2]
      /\ (pc = "para" /\ para_rest # <<>>
           /\ \E j \in (ParaRead + 1)..(ParaRead + Len(Head(para_rest)[2])) :
                InOpenFence(j))
         => /\ para'.paragraphs = para.paragraphs
            /\ para'.buf = para.buf \o Head(para_rest)[2] ]_vars

HeadingAndBlankInFence ==
  /\ pc = "para"
  /\ scan.in_fence
  /\ Len(sect.sections) = 1
  /\ para_rest = <<>>
  /\ F_h2 \in Range(para.buf)
  /\ F_blank \in Range(para.buf)

\* what one scanner step does with a line, from state st to state st2;
\* group is the group the scanner emits for a delimiter line
FenceStepOk(st, st2, line, group) ==
  LET m == FenceMatch(line)
  IN  /\ (st.in_fence /\ m # None /\ m # st.fence_delim)
           => st2.in_fence /\ st2.fence_delim = st.fence_delim
      /\ (st.in_fence /\ m = None)
           => st2.in_fence /\ st2.fence_delim = st.fence_delim
      /\ (st.in_fence /\ m # None /\ m = st.fence_delim) => ~st2.in_fence
      /\ (~st.in_fence /\ m # None) => st2.in_fence /\ st2.fence_delim = m
      /\ m # None => st2.out # <<>> /\ st2.out[Len(st2.out)] = <<TRUE, group>>
      /\ m = None => st2.out = st.out

\* C5: while a fence of one style is open, a line beginning with the other
\* style neither closes it nor opens a nested fence: the fence stays open,
\* with its style, until a line beginning with the opener's style; every
\* delimiter line is emitted as a literal group (builder and validator).
OtherStyleStaysOpen ==
  [][ /\ (pc = "scan" /\ scan_rest # <<>>)
         => FenceStepOk(scan, scan', Head(scan_rest), <<Head(scan_rest)>>)
      /\ (pc = "vscan" /\ vscan_rest # <<>>)
         => FenceStepOk(vscan, vscan', Head(vscan_rest), Head(vscan_rest)) ]_vars

OtherStyleInsideFence ==
  /\ pc = "sect"
  /\ scan.in_fence /\ scan.fence_delim = Backticks
  /\ scan.out[Len(scan.out)] = <<TRUE, <<F_td>>>>
  /\ vscan.in_fence /\ vscan.fence_delim = Backticks
  /\ vscan.out[Len(vscan.out)] = <<TRUE, F_td>>

\* the lines of the sections given, in list order
SectionLines(sections) == Join([i \in DOMAIN sections |-> sections[i].lines])

\* C14: the section segmenter returns a non-empty list whose first section
\* is the root section (title and slug "root", possibly without lines); the
\* lines of the sections, concatenated in list order, are the lines of the
\* body; every later section begins with the heading line that opened it and
\* carries that heading's title and slug. While the segmenter reads, the
\* sections pushed, the open section and the unread regions make up the body.
SectionsCoverBody ==
  /\ pc = "sect" =>
       SectionLines(sect.sections) \o sect.current_lines
         \o Join([i \in DOMAIN sect_rest |-> sect_rest[i][2]]) = Splitlines(body)
  /\ pc \in {"para_begin", "para", "done"} =>
       /\ sect.sections # <<>>
       /\ sect.sections[1].h2_title = RootWord
       /\ sect.sections[1].h2_slug = RootWord
       /\ SectionLines(sect.sections) = Splitlines(body)
       /\ \A i \in 2..Len(sect.sections) :
            /\ sect.sections[i].lines # <<>>
            /\ H2Match(sect.sections[i].lines[1]) # None
            /\ sect.sections[i].h2_title = Strip(H2Match(sect.sections[i].lines[1]))
            /\ sect.sections[i].h2_slug = Slugify(sect.sections[i].h2_title)

\* a segmented body with an empty root section, a later section and a fence
EmptyRootThenSections ==
  /\ pc = "done"
  /\ Len(sect.sections) = 3
  /\ sect.sections[1].lines = <<>>
  /\ \E i \in 2..3 : F_bt \in Range(sect.sections[i].lines)

\* line is optional white space, two markers, one or more spaces, text that
\* is not empty and optional white space
StatedHeading(line) ==
  /\ StartsWith(Strip(line), <<"#", "#">>)
  /\ Len(Strip(line)) > 3
  /\ Strip(line)[3] \in SpaceChars

\* the text of such a line, trimmed
StatedTitle(line) == Strip(From(Strip(line), 3))

\* the numbers of the body lines that are prose and headings as stated
StatedHeadingLines ==
  {j \in DOMAIN Splitlines(body) :
     /\ ~InOpenFence(j)
     /\ FenceMatch(Splitlines(body)[j]) = None
     /\ StatedHeading(Splitlines(body)[j])}

\* C18: the sections after the root section are opened by exactly the prose
\* lines made of optional white space, two markers, one or more spaces, text
\* that is not empty and optional white space; the title of such a section
\* is that text trimmed and is not empty; a line of two markers and white
\* space only opens no section.
HeadingsAsStated ==
  pc \in {"para_begin", "para", "done"} =>
    /\ Len(sect.sections) - 1 = Cardinality(StatedHeadingLines)
    /\ \A i \in 2..Len(sect.sections) :
         /\ StatedHeading(sect.sections[i].lines[1])
         /\ sect.sections[i].h2_title = StatedTitle(sect.sections[i].lines[1])
         /\ sect.sections[i].h2_title # <<>>

\* a section opened by a line of two markers and spaces: its title is empty
EmptyTitleSection ==
  /\ pc = "done"
  /\ \E i \in 2..Len(sect.sections) :
       /\ sect.sections[i].lines[1] = F_spaces
       /\ sect.sections[i].h2_title = <<>>
       /\ sect.sections[i].h2_slug = RootWord

\* the sections are as stated whenever no line of two markers is followed by
\* white space only
HeadingsAsStatedButBlank ==
  (/\ pc \in {"para_begin", "para", "done"}
   /\ F_spaces \notin Range(Splitlines(body))) =>
    /\ Len(sect.sections) - 1 = Cardinality(StatedHeadingLines)
    /\ \A i \in 2..Len(sect.sections) :
         /\ StatedHeading(sect.sections[i].lines[1])
         /\ sect.sections[i].h2_title = StatedTitle(sect.sections[i].lines[1])

\* literal (TRUE) or prose (FALSE), for each line of the groups given
LineClasses(regs) ==
  Join([i \in DOMAIN regs |-> [j \in DOMAIN regs[i][2] |-> regs[i][1]]])

\* the body lines that come before the sections main has still to split
LinesBeforeRest == Len(Splitlines(body)) - CountSectionLines(sec_rest)

\* C20: when main hands a section to the paragraph segmenter, the fresh fence
\* scan of the section's lines classes each line (literal or prose) as the
\* scan of the whole body did: the section starts outside any fence of the
\* body.
SectionScanAgrees ==
  [][(pc = "para_begin" /\ pc' = "para") =>
       /\ ~InOpenFence(LinesBeforeRest + 1)
       /\ LineClasses(para_rest')
            = SubSeq(LineClasses(scan.out), LinesBeforeRest + 1,
                     LinesBeforeRest + Len(Head(sec_rest).lines))]_vars

\* a section after the root section is being split whose lines hold a fence
\* with a heading line in it
SectionWithFenceRescanned ==
  /\ pc = "para"
  /\ Len(sec_rest) < Len(sect.sections)
  /\ \E i \in DOMAIN para_rest :
       para_rest[i][1] /\ F_h2 \in Range(para_rest[i][2])

\* the validator's groups, each text split back into its lines
AsLineGroups(regs) ==
  [i \in DOMAIN regs |-> <<regs[i][1], Splitlines(regs[i][2])>>]

\* the builder's groups, the lines of each joined into one text
AsTextGroups(regs) ==
  [i \in DOMAIN regs |-> <<regs[i][1], Join(regs[i][2])>>]

\* the builder's scanner state after the lines the validator's has read
BuilderAfterRead ==
  FenceFoldLines(ScanInit,
                 SubSeq(Splitlines(body), 1,
                        Len(Splitlines(body)) - Len(vscan_rest)))

\* C21: the builder's fence scanner and the validator's, given the same body,
\* return the same groups (same flags, same boundaries, the validator's text
\* being the builder's lines joined), so each line gets the same literal or
\* prose flag from both; and after every line read the two scanners are in
\* the same fence state with the same groups and the same buffer.
ScannersAgree ==
  /\ pc = "vscan" =>
       /\ AsTextGroups(BuilderAfterRead.out) = vscan.out
       /\ BuilderAfterRead.in_fence = vscan.in_fence
       /\ BuilderAfterRead.fence_delim = vscan.fence_delim
       /\ BuilderAfterRead.buf = vscan.buf
  /\ pc \notin {"scan", "vscan"} =>
       /\ AsTextGroups(scan.out) = vscan.out
       /\ AsLineGroups(vscan.out) = scan.out
       /\ LineClasses(AsLineGroups(vscan.out)) = LineClasses(scan.out)

\* both scanners have returned at least three groups, one of prose and one of
\* lines inside a fence that are not delimiter lines
MixedBodyScanned ==
  /\ pc = "sect"
  /\ Len(scan.out) >= 3 /\ Len(vscan.out) >= 3
  /\ \E i \in DOMAIN vscan.out : ~vscan.out[i][1]
  /\ \E i \in DOMAIN scan.out :
       scan.out[i][1] /\ FenceMatch(scan.out[i][2][1]) = None

\* ------------------------------------------------------------------------
\* Claims about the build of a tree (specification SpecBuild)
\* ------------------------------------------------------------------------

\* the directory names the contract reserves
ReservedSegments ==
  {<<"_", "d", "r", "a", "f", "t", "s">>,
   <<"_", "t", "e", "m", "p", "l", "a", "t", "e", "s">>,
   <<"_", "d", "e", "p", "r", "e", "c", "a", "t", "e", "d">>}

\* a segment of p is reserved or starts with "."
HasReservedOrHiddenSegment(p) ==
  \E i \in DOMAIN p : p[i] \in ReservedSegments \/ (p[i] # <<>> /\ p[i][1] = ".")

\* what the metadata parser makes of each file of the pool
Parsed == [f \in FilePool |-> ParseDoc(f.raw)]

ParsableFiles == {f \in FilePool : Parsed[f].raised = None /\ Parsed[f].fm.kind = "map"}

\* the files whose declared status is exactly "stable"
StableFiles ==
  {f \in ParsableFiles :
     /\ <<"s", "t", "a", "t", "u", "s">> \in DOMAIN Parsed[f].fm.map
     /\ Parsed[f].fm.map[<<"s", "t", "a", "t", "u", "s">>]
          = <<"s", "t", "a", "b", "l", "e">>}

\* f is stable and the path the builder resolves for it has no reserved or
\* hidden segment
Included(f) ==
  f \in StableFiles /\ ~HasReservedOrHiddenSegment(repo_root \o f.path)

\* the repository-relative paths named by a list of records or entries
PathsNamed(rs) == {rs[i].source_path : i \in DOMAIN rs}

\* how many entries of rs name the path sp
CountNaming(rs, sp) == Cardinality({i \in DOMAIN rs : rs[i].source_path = sp})

ExportedOnlyIncluded(recs, index) ==
  \A sp \in PathsNamed(recs) \cup PathsNamed(index) :
    \E f \in tree : JoinPath(f.path) = sp /\ Included(f)

\* C6: after a successful build no record of the export and no entry of the
\* index belongs to a document with a reserved or hidden path segment or with
\* a declared status other than exactly "stable", and every other parsable
\* document has exactly one index entry.
ExclusionCorrect ==
  pc = "done" =>
    /\ ExportedOnlyIncluded(out.corpus[1], out.index[1])
    /\ \A f \in tree :
         Included(f) => CountNaming(out.index[1], JoinPath(f.path)) = 1

PlainRoot == <<<<"/">>, <<"r">>>>

\* a build of a stable document, a document under _drafts and a draft
ExclusionSeen ==
  /\ pc = "done"
  /\ repo_root = PlainRoot
  /\ {File_a, File_drafts, File_draft} \subseteq tree
  /\ Len(out.index[1]) = 1
  /\ Len(out.corpus[1]) = 2

\* the file of the tree at the repository-relative path sp
FileNamed(sp) == CHOOSE f \in tree : JoinPath(f.path) = sp

\* the records of recs that name the path sp, in their order in recs
RecordsNaming(recs, sp) ==
  LET Names(r) == r.source_path = sp
  IN  SelectSeq(recs, Names)

IndexAscending(index) ==
  \A i, j \in DOMAIN index :
    i < j => ~StrLess(index[j].doc_id, index[i].doc_id)

\* the records of different documents follow the order of their paths
ExportInPathOrder(recs) ==
  \A i, j \in DOMAIN recs :
    (i < j /\ recs[i].source_path # recs[j].source_path)
      => PathLess(FileNamed(recs[i].source_path).path,
                  FileNamed(recs[j].source_path).path)

\* the records of one document are its sections in body order, and within a
\* section its paragraphs in ascending index
ExportInBodyOrder(recs) ==
  \A f \in tree :
    Included(f) =>
      RecordsNaming(recs, JoinPath(f.path))
        = DocRecords(CorpusVersion(env), JoinPath(f.path),
                     Parsed[f].fm.map, Parsed[f].body)

\* f comes before g by path and after g by document ID
OrdersDisagree(f, g) ==
  /\ PathLess(f.path, g.path)
  /\ StrLess(Parsed[g].fm.map[K_id], Parsed[f].fm.map[K_id])

\* an entry or record of x precedes one of y in rs
Precedes(rs, x, y) ==
  \E i, j \in DOMAIN rs :
    /\ i < j
    /\ rs[i].source_path = JoinPath(x.path)
    /\ rs[j].source_path = JoinPath(y.path)

\* C7: the index entries are in ascending document-ID order; the export
\* records are in emission order (documents by sorted path, sections in body
\* order, paragraphs by ascending index); the two orders differ whenever
\* document-ID order differs from path order.
IndexByIdExportByPath ==
  pc = "done" =>
    /\ IndexAscending(out.index[1])
    /\ ExportInPathOrder(out.corpus[1])
    /\ ExportInBodyOrder(out.corpus[1])
    /\ \A f, g \in tree :
         (Included(f) /\ Included(g) /\ OrdersDisagree(f, g))
           => /\ Precedes(out.corpus[1], f, g)
              /\ Precedes(out.index[1], g, f)

\* docs/a.md (ID "b") and docs/b.md (ID "a") are built: the export starts
\* with docs/a.md, the index with ID "a"
OrdersDifferSeen ==
  /\ pc = "done"
  /\ repo_root = PlainRoot
  /\ {File_a, File_b} \subseteq tree
  /\ out.corpus[1][1].source_path = JoinPath(File_a.path)
  /\ out.index[1][1].doc_id = <<"a">>
  /\ out.index[1][1].source_path = JoinPath(File_b.path)

\* the timestamp override is set
Pinned == env.timestamp \notin {None, ""}

\* C8: two builds of the same tree with the same corpus version, revision
\* marker and pinned BUILD_TIMESTAMP_UTC write identical export, index and
\* manifest.
PinnedBuildsIdentical ==
  (run = 2 /\ pc = "done" /\ Pinned) => out = prev

\* a second pinned build of two documents has finished
SecondPinnedBuildDone ==
  /\ run = 2
  /\ pc = "done"
  /\ Pinned
  /\ {File_a, File_b} \subseteq tree
  /\ Len(out.corpus[1]) = 3
  /\ prev.manifest # <<>>

\* the chunk IDs and content hashes of a list of records
IdsAndHashes(recs) == [i \in DOMAIN recs |-> <<recs[i].chunk_id, recs[i].sha256>>]

\* metadata of which only the document ID is known
IdOnlyFm(id) == [k \in RequiredKeys |-> IF k = K_id THEN id ELSE <<>>]

\* C9: the chunk IDs and content hashes emitted for an included document are
\* a function of its ID and body alone, whatever the other documents of the
\* tree, the corpus version and the place of the document.
ChunkIdentityLocal ==
  pc = "done" =>
    \A f \in tree :
      Included(f) =>
        IdsAndHashes(RecordsNaming(out.corpus[1], JoinPath(f.path)))
          = IdsAndHashes(DocRecords("v0", <<>>, IdOnlyFm(Parsed[f].fm.map[K_id]),
                                    Parsed[f].body))

\* docs/b.md is built along with another included document and an excluded one
BuiltAmongOthers ==
  /\ pc = "done"
  /\ repo_root = PlainRoot
  /\ {File_a, File_b} \subseteq tree
  /\ Cardinality(tree) = 3
  /\ Len(RecordsNaming(out.corpus[1], JoinPath(File_b.path))) = 1

\* C10 (as stated): a document whose metadata block is missing or malformed
\* is skipped and the builder still emits the index entries of the remaining
\* eligible documents.
BadMetadataSkipped ==
  pc \in {"done", "raised"} =>
    \A f \in tree :
      Included(f) =>
        /\ out.index # <<>>
        /\ CountNaming(out.index[1], JoinPath(f.path)) = 1

\* the sum of chunk_count over the entries of an index
RECURSIVE SumChunkCounts(_)
SumChunkCounts(index) ==
  IF index = <<>> THEN 0
  ELSE Head(index).chunk_count + SumChunkCounts(Tail(index))

\* C22: after a successful build the manifest's doc_count is the number of
\* entries of the written index, its record_count the number of records of
\* the written export, the chunk_count values of the index add up to
\* record_count, and each entry's chunk_count is the number of export records
\* that carry the entry's source path.
CountsAgree ==
  pc = "done" =>
    /\ out.manifest[1].doc_count = Len(out.index[1])
    /\ out.manifest[1].record_count = Len(out.corpus[1])
    /\ SumChunkCounts(out.index[1]) = out.manifest[1].record_count
    /\ \A i \in DOMAIN out.index[1] :
         out.index[1][i].chunk_count
           = CountNaming(out.corpus[1], out.index[1][i].source_path)

\* a build has succeeded with an entry without chunks, an entry of several
\* chunks, and two entries of one document ID
UnevenCountsBuilt ==
  /\ pc = "done"
  /\ out.manifest[1].doc_count >= 3
  /\ out.manifest[1].record_count >= 3
  /\ \E i, j, k \in DOMAIN out.index[1] :
       /\ out.index[1][i].chunk_count = 0
       /\ out.index[1][j].chunk_count >= 2
       /\ k # j /\ out.index[1][k].doc_id = out.index[1][j].doc_id

\* the artifacts the output directory held when the run began: those of the
\* earlier run when main runs again in the same directory, else none
ArtifactsAtStart == IF run = 3 THEN prev ELSE NoArtifacts

\* C23: the builder writes its artifacts only after the loop over the
\* traversal has ended: while documents are processed, and when processing a
\* document has raised, the output directory holds the artifacts it held when
\* the run began (none created, none changed); the export is written when no
\* document is left, the index after the export and the manifest after the
\* index, each from the lists the loop has built.
ArtifactsAfterLoop ==
  /\ [](pc \in {"start", "loop", "raised"} => out = ArtifactsAtStart)
  /\ [](pc = "write_index" =>
          out = [ArtifactsAtStart EXCEPT !.corpus = <<records>>])
  /\ [](pc = "write_manifest" =>
          out = [ArtifactsAtStart EXCEPT !.corpus = <<records>>,
                                         !.index = <<doc_index>>])
  /\ [](pc = "done" =>
          /\ out.corpus = <<records>>
          /\ out.index = <<doc_index>>
          /\ out.manifest # <<>>)
  /\ [][pc' # "start" =>
          /\ out'.corpus # out.corpus =>
               pc = "loop" /\ todo = <<>> /\ pc' = "write_index"
          /\ out'.index # out.index =>
               pc = "write_index" /\ pc' = "write_manifest"
          /\ out'.manifest # out.manifest =>
               pc = "write_manifest" /\ pc' = "done"]_vars

\* a run in a directory that holds the artifacts of an earlier build has
\* raised after it had collected records
RaisedOverEarlierBuild ==
  /\ pc = "raised"
  /\ run = 3
  /\ records # <<>>
  /\ doc_index # <<>>
  /\ out.manifest # <<>>
  /\ out.index # <<doc_index>>

\* ------------------------------------------------------------------------
\* Claims about the validator (specification SpecValidate)
\* ------------------------------------------------------------------------

\* the kinds of the warnings given
WarningKinds == {warnings[i].kind : i \in DOMAIN warnings}

\* C11: the validator returns 0 exactly when the error list is empty at the
\* end of the run, whatever the warnings, and 1 when it holds an error; it
\* decides once, after every document was visited.
ExitContract ==
  /\ pc \in {"vstart", "vloop"} => exit_code = <<>>
  /\ pc = "vdone" =>
       /\ todo = <<>>
       /\ exit_code \in {<<0>>, <<1>>}
       /\ exit_code = <<0>> <=> errors = <<>>
  /\ exit_code = <<0>> => pc = "vdone"

\* a run that ends with both kinds of warning and without error
WarningsOnlyRun ==
  /\ pc = "vdone"
  /\ WarningKinds = {"no_h1", "duplicate_title"}
  /\ errors = <<>>
  /\ exit_code = <<0>>

\* the paths main's loop works on, in its order
TraversalV ==
  IterMarkdownFiles(CHOOSE l \in Listings(Rglob(tree, repo_root)) : TRUE)

\* the paths the loop has finished with
DoneV == SubSeq(TraversalV, 1, Len(TraversalV) - Len(todo))

\* what the validator's parse_doc gives for each file
ParsedV == [f \in VFilePool |-> ParseDocV(f.raw)]

\* the ID of the parsable document at p: <<id>>, or <<>> when it has none
IdOf(p) ==
  IF ParsedV[FileAt(p)].raised # None THEN <<>>
  ELSE IF ParsedV[FileAt(p)].front_matter.kind # "map" THEN <<>>
  ELSE IF Falsy(ParsedV[FileAt(p)].front_matter, K_id) THEN <<>>
  ELSE <<ParsedV[FileAt(p)].front_matter.map[K_id]>>

\* the finished paths whose document has the ID given, in traversal order
Holders(id) ==
  LET Holds(p) == IdOf(p) = <<id>>
  IN  SelectSeq(DoneV, Holds)

\* the duplicate-ID errors about the ID given, in the order reported
DuplicatesOf(id) ==
  LET About(e) == e.check = "duplicate_id" /\ e.detail = id
  IN  SelectSeq(errors, About)

\* one error per holder after the first, each naming the first holder
DuplicatesDue(id) ==
  [i \in 1 .. Len(Holders(id)) - 1 |->
     Error(Holders(id)[i + 1], "duplicate_id", id, Holders(id)[1])]

\* the IDs of the documents of the tree and of the errors reported
IdsInPlay ==
  {IdOf(repo_root \o f.path)[1] :
     f \in {g \in tree : IdOf(repo_root \o g.path) # <<>>}}
    \cup {errors[i].detail :
            i \in {j \in DOMAIN errors : errors[j].check = "duplicate_id"}}

\* what the duplicate-ID check does as far as the run gets: an ID that k of
\* the documents visited so far hold has exactly k-1 duplicate-ID errors, one
\* against each holder but the first in traversal order, each naming the
\* path of that first holder; seen_ids records the first holder of every
\* ID, and an entry of seen_ids never changes or disappears.
FirstHolderWins ==
  /\ [](pc \in {"vloop", "vdone"} =>
          /\ \A id \in IdsInPlay : DuplicatesOf(id) = DuplicatesDue(id)
          /\ DOMAIN seen_ids = {id \in IdsInPlay : Holders(id) # <<>>}
          /\ \A id \in DOMAIN seen_ids : seen_ids[id] = Holders(id)[1])
  /\ [][\A id \in DOMAIN seen_ids :
          id \in DOMAIN seen_ids' /\ seen_ids'[id] = seen_ids[id]]_vars

\* a finished run over three documents that share one ID
ThreeHoldersDone ==
  /\ pc = "vdone"
  /\ \E id \in IdsInPlay :
       /\ Len(Holders(id)) = 3
       /\ Len(DuplicatesOf(id)) = 2

\* the paths of the traversal whose document parses and has the ID given
HoldersInTree(id) ==
  LET Holds(p) == IdOf(p) = <<id>>
  IN  SelectSeq(TraversalV, Holds)

\* C12: when the run has ended, an ID that k >= 2 parsable documents of the
\* traversal hold has exactly k-1 duplicate-ID errors, none against the first
\* holder in traversal order and each naming the path of that first holder;
\* the holder recorded for an ID never changes.
DuplicatesReported ==
  /\ [](pc \in {"vdone", "vraised"} =>
          \A id \in IdsInPlay :
            Len(HoldersInTree(id)) >= 2 =>
              DuplicatesOf(id) =
                [i \in 1 .. Len(HoldersInTree(id)) - 1 |->
                   Error(HoldersInTree(id)[i + 1], "duplicate_id", id,
                         HoldersInTree(id)[1])])
  /\ [][\A id \in DOMAIN seen_ids :
          id \in DOMAIN seen_ids' /\ seen_ids'[id] = seen_ids[id]]_vars

\* the run ended before it reached a later holder of an ID
HolderNeverReached ==
  /\ pc = "vraised"
  /\ \E id \in IdsInPlay :
       /\ Len(HoldersInTree(id)) = 2
       /\ DuplicatesOf(id) = <<>>

\* the check an error kind belongs to
CheckOf(kind) ==
  CASE kind \in {"domain", "status", "audience"}  -> "taxonomy"
    [] kind \in {"date_invalid", "date_future"}   -> "date"
    [] kind \in {"html_comment", "html_tag"}      -> "markup"
    [] kind \in {"link_outside", "link_broken"}   -> "links"
    [] OTHER                                      -> kind

\* the document at p parses and no check raises on its metadata
Checkable(p) ==
  /\ ParsedV[FileAt(p)].raised = None
  /\ RaisedBy(ParsedV[FileAt(p)].front_matter) = None

\* the checks the document at p violates
ViolatedChecks(p) ==
  {CheckOf(e.check) :
     e \in Range(DocErrors(p, ParsedV[FileAt(p)].front_matter,
                           ParsedV[FileAt(p)].body, <<>>, repo_root, tree))}
    \cup (IF IdOf(p) # <<>> /\ HoldersInTree(IdOf(p)[1])[1] # p
          THEN {"duplicate_id"} ELSE {})

\* the checks that have an error against the document at p
ReportedChecks(p) ==
  {CheckOf(errors[i].check) : i \in {j \in DOMAIN errors : errors[j].path = p}}

\* C16: when the run has ended, every document of the traversal whose
\* metadata block parses has at least one error for each check it violates
\* (schema, taxonomy, curated tags, duplicate ID, last-reviewed date, markup
\* in prose, relative links): no check is skipped because another one failed,
\* and no document is skipped because of the errors of an earlier one.
EveryCheckReported ==
  pc \in {"vdone", "vraised"} =>
    \A p \in Range(TraversalV) :
      Checkable(p) => ViolatedChecks(p) \subseteq ReportedChecks(p)

\* what holds when main returns: each document has errors for exactly the
\* checks it violates
ChecksReportedOnReturn ==
  pc = "vdone" =>
    \A p \in Range(TraversalV) :
      Checkable(p) => ViolatedChecks(p) = ReportedChecks(p)

\* main returned after a document that violates all seven checks
SevenChecksReported ==
  /\ pc = "vdone"
  /\ \E p \in Range(TraversalV) : Cardinality(ReportedChecks(p)) = 7

\* the run ended with a document that violates a check still to visit
LaterDocumentUnchecked ==
  /\ pc = "vraised"
  /\ \E i \in 2..Len(todo) :
       Checkable(todo[i]) /\ ViolatedChecks(todo[i]) # {}

\* a segment of p starts with "."
HasHiddenSegment(p) == \E i \in DOMAIN p : p[i] # <<>> /\ p[i][1] = "."

\* a segment of p is _drafts, _templates or _deprecated
HasReservedSegment(p) == \E i \in DOMAIN p : p[i] \in ReservedSegments

\* the documents of the tree whose path has no hidden segment
OpenPaths == {p \in Rglob(tree, repo_root) : ~HasHiddenSegment(p)}

\* C17: the validator's loop is given every document of the tree whose path
\* has no hidden segment, each once and in path order, those under _drafts,
\* _templates and _deprecated included, and works through them one by one;
\* the builder skips every path with a reserved segment. So a document under
\* a reserved directory that violates a check makes the validator end with
\* status 1 (with an error against it when main returns), although no build
\* includes it.
ReservedValidatedNotBuilt ==
  /\ [][/\ pc = "vstart" =>
             /\ Range(todo') = OpenPaths
             /\ Len(todo') = Cardinality(OpenPaths)
             /\ \A i \in 1 .. Len(todo') - 1 : PathLess(todo'[i], todo'[i + 1])
        /\ pc = "vloop" /\ pc' = "vloop" => todo' = Tail(todo)]_vars
  /\ [](pc \in {"vdone", "vraised"} =>
          \A p \in OpenPaths :
            HasReservedSegment(p) =>
              /\ SkippedPath(p)
              /\ p \notin Range(IterDocs(CHOOSE l \in Listings(Rglob(tree, repo_root)) : TRUE))
              /\ Checkable(p) /\ ViolatedChecks(p) # {} =>
                   /\ exit_code = <<1>>
                   /\ pc = "vdone" => ReportedChecks(p) # {})

\* validation failed on nothing but a document under _drafts
OnlyDraftFails ==
  /\ pc = "vdone"
  /\ exit_code = <<1>>
  /\ errors # <<>>
  /\ \A i \in DOMAIN errors :
       /\ HasReservedSegment(errors[i].path)
       /\ SkippedPath(errors[i].path)
  /\ Cardinality(tree) = 2

\* ------------------------------------------------------------------------
\* Claims about the metadata parser (specification SpecParse)
\* ------------------------------------------------------------------------

\* a parser has accepted raw_text
Accepted == pc \in {"parsed", "vparsed"} /\ doc.raised = None

\* line is three dashes, optional blanks and a line break
DelimiterLine(line) ==
  /\ StartsWith(line, Dashes)
  /\ Chomp(line) # line
  /\ Strip(From(line, 4)) = <<>>

\* the part of raw_text a parser took for the metadata block
MatchedBlock == SubSeq(raw_text, 1, Len(raw_text) - Len(doc.body))

\* C13: for every raw document a parser accepts, the raw text is the matched
\* metadata block followed by the body, and the block ends with the closing
\* three-dash line: no line after that line, a blank one included, is taken
\* into the block, so the body is the text after the closing line, unchanged.
BodyIsTextAfterClosingLine ==
  Accepted =>
    /\ raw_text = MatchedBlock \o doc.body
    /\ DelimiterLine(Splitlines(MatchedBlock)[Len(Splitlines(MatchedBlock))])

\* a parser has taken a blank line that follows the closing line
BlankLineTaken ==
  /\ Accepted
  /\ Splitlines(MatchedBlock)[Len(Splitlines(MatchedBlock))] = F_blank
  /\ DelimiterLine(Splitlines(MatchedBlock)[Len(Splitlines(MatchedBlock)) - 1])

\* ------------------------------------------------------------------------
\* Claims about the link check (specification SpecLinks)
\* ------------------------------------------------------------------------

\* the directory of the document whose links are checked
LinkDocDir == repo_root \o <<S_docs>>

\* the link targets of the prose regions of text, in order
ProseTargets(text) ==
  LET regs == SplitCodeFenceRegions(text)
  IN  Join([i \in DOMAIN regs |->
              IF regs[i][1] THEN <<>> ELSE FindLinks(regs[i][2], 1)])

AnchorOnly(target) == StartsWith(Strip(target), <<"#">>)

AbsoluteTarget(target) == StartsWith(Strip(target), <<"/">>)

\* a target the check is to skip: external, absolute or anchor-only
SkippedTarget(target) ==
  IsExternal(Strip(target)) \/ AbsoluteTarget(target) \/ AnchorOnly(target)

\* where a relative target leads, its title and anchor left out
LeadsTo(target) == Resolve(<<>>, JoinDir(LinkDocDir, TargetPath(target)))

\* a relative target that leaves the repository or names no file
FailingTarget(target) ==
  /\ ~SkippedTarget(target)
  /\ \/ ~IsPrefix(repo_root, LeadsTo(target))
     \/ ~Exists(LeadsTo(target), repo_root, tree)

\* C15: the link check reports exactly the prose targets that are relative
\* (not external, absolute or anchor-only) and resolve outside the repository
\* or to no existing file, in order; an external, absolute or anchor-only
\* target and a target in a literal region give no error.
LinkErrorsAsStated ==
  pc = "linked" =>
    [i \in DOMAIN errors |-> errors[i].detail]
      = SelectSeq(ProseTargets(body), FailingTarget)

\* the outcome with the absolute targets left aside: the code reports every
\* other target as stated
LinkErrorsButAbsolute ==
  pc = "linked" =>
    LET Relative(t) == ~AbsoluteTarget(t)
    IN  SelectSeq([i \in DOMAIN errors |-> errors[i].detail], Relative)
          = SelectSeq(ProseTargets(body), FailingTarget)

\* an absolute target in prose was reported
AbsoluteTargetReported ==
  /\ pc = "linked"
  /\ \E i \in DOMAIN errors : errors[i].detail = T_abs

\* ------------------------------------------------------------------------
\* Claims about build_prompt (specification SpecPrompt)
\* ------------------------------------------------------------------------

\* the chunk IDs of the document d, in the order of its chunk list
ChunkIdsOf(d) == [i \in DOMAIN CorpusDocs[d].chunks |-> CorpusDocs[d].chunks[i][1]]

\* the chunk IDs included for the document d, in the order included
IncludedOf(d) ==
  LET OfDoc(c) == c \in Range(ChunkIdsOf(d))
  IN  SelectSeq(prompt.included_chunk_ids, OfDoc)

====
